---- MODULE Spec2Model ----
(***************************************************************************)
(* Model of the command-execution and boundary-safety core of memvid-mcp:  *)
(*   - the Root Registry        (src/src/roots.ts)                         *)
(*   - the Path Validator       (src/src/types.ts)                         *)
(*   - the Process Executor     (src/src/executor.ts)                      *)
(*   - the tool registrations that feed paths to the executor              *)
(*                              (src/src/tools/write.ts, crypto.ts)        *)
(*                                                                         *)
(* JavaScript strings are modelled as sequences of one-character strings,  *)
(* so that includes / startsWith / replace / toLowerCase / trim / split    *)
(* are computed character by character as the code computes them.          *)
(***************************************************************************)
EXTENDS Integers, Sequences, FiniteSets, TLC

VARIABLES
    \* ---- roots.ts: const state: RootsState --------------------------------
    roots,          \* state.roots       (sequence of root URIs)
    initialized,    \* state.initialized
    supported,      \* state.supported
    \* ---- the MCP client and the messages in flight ------------------------
    clientRoots,    \* the root list the client would answer with right now
    pendingNotes,   \* roots/list_changed notifications not yet handled
    queries,        \* listRoots() calls awaiting their answer
    nextQ,          \* number of listRoots() calls issued so far
    initStarted,    \* server.oninitialized has run
    lastOp,         \* the handler step completed last, and the state it found
    platform,       \* process.platform of the adapter process
    \* ---- application of the Path Validator to one candidate path ----------
    probe,
    \* ---- one tool invocation and its executeMemvid call -------------------
    verbose,        \* MEMVID_VERBOSE
    pc,             \* position of the tool handler / executeMemvid
    call,           \* the tool invocation: fields, argv, timeout, skipJson
    attempt,        \* the loop variable of executeMemvid
    children,       \* one child process record per executeOnce() call
    results,        \* the value each executeOnce() promise resolved with
    returned,       \* the value executeMemvid returned
    delays,         \* the sleep() durations awaited so far in this call
    logs            \* the log() calls made so far, in order

regVars == <<roots, initialized, supported, clientRoots, pendingNotes,
             queries, nextQ, initStarted, lastOp, platform>>

execVars == <<verbose, pc, call, attempt, children, results, returned, delays,
              logs>>

(***************************************************************************)
(* Bounds of the model                                                     *)
(***************************************************************************)
MaxSegs    == 2     \* path components after the optional drive prefix
MaxChanges == 2     \* roots/list_changed notifications the client sends
MaxQueries == 3     \* listRoots() calls issued in one behaviour
MaxOut     == 1     \* chunks a child writes to its standard output
MaxErr     == 1     \* chunks a child writes to its standard error
MaxOpts    == 2     \* entries of an options object given to buildArgs

(***************************************************************************)
(* JavaScript string primitives                                            *)
(***************************************************************************)
UpperChars == <<"A","B","C","D","E","F","G","H","I","J","K","L","M",
                "N","O","P","Q","R","S","T","U","V","W","X","Y","Z">>
LowerChars == <<"a","b","c","d","e","f","g","h","i","j","k","l","m",
                "n","o","p","q","r","s","t","u","v","w","x","y","z">>

IsUpper(c)  == \E i \in 1..26 : UpperChars[i] = c
IsLetter(c) == \E i \in 1..26 : UpperChars[i] = c \/ LowerChars[i] = c

LowerChar(c) ==
    IF IsUpper(c) THEN LowerChars[CHOOSE i \in 1..26 : UpperChars[i] = c]
    ELSE c

\* String.prototype.toLowerCase
ToLowerCase(s) == [i \in 1..Len(s) |-> LowerChar(s[i])]

\* s.replace(/\\/g, "/")
ReplaceBackslash(s) == [i \in 1..Len(s) |-> IF s[i] = "\\" THEN "/" ELSE s[i]]

\* String.prototype.includes
Includes(s, p) ==
    \E i \in 0..(Len(s) - Len(p)) : SubSeq(s, i + 1, i + Len(p)) = p

\* String.prototype.startsWith / endsWith
StartsWith(s, p) == Len(s) >= Len(p) /\ SubSeq(s, 1, Len(p)) = p
EndsWith(s, p)   == Len(s) >= Len(p) /\ SubSeq(s, Len(s) - Len(p) + 1, Len(s)) = p

\* String.prototype.slice(n) and slice(0, -1)
SliceFrom(s, n) == SubSeq(s, n + 1, Len(s))
DropLast(s)     == SubSeq(s, 1, Len(s) - 1)

\* /^[A-Za-z]:/.test(s)
MatchesDrive(s) == Len(s) >= 2 /\ IsLetter(s[1]) /\ s[2] = ":"

\* /^\/[A-Za-z]:/.test(s)
MatchesSlashDrive(s) == Len(s) >= 3 /\ s[1] = "/" /\ IsLetter(s[2]) /\ s[3] = ":"

(***************************************************************************)
(* roots.ts                                                                *)
(***************************************************************************)
FILE_SCHEME == <<"f","i","l","e",":","/","/">>

\* uriToPath(uri)
uriToPath(uri) ==
    IF ~StartsWith(uri, FILE_SCHEME) THEN uri
    ELSE LET path0 == SliceFrom(uri, Len(FILE_SCHEME))
             path1 == IF MatchesSlashDrive(path0) THEN SliceFrom(path0, 1) ELSE path0
         IN  ReplaceBackslash(path1)

\* normalizePath(path); plat is process.platform
normalizePath(path, plat) ==
    LET n0 == ReplaceBackslash(path)
        hasTrailingSlash == EndsWith(n0, <<"/">>) /\ Len(n0) > 1
        n1 == IF hasTrailingSlash THEN DropLast(n0) ELSE n0
        isWindowsPath == plat = "win32" \/ MatchesDrive(n1)
    IN  IF isWindowsPath THEN ToLowerCase(n1) ELSE n1

\* variant: a plain string-prefix test, without the separator
RootAdmits_StringPrefix(uri, normalizedPath, plat) ==
    StartsWith(normalizedPath, normalizePath(uriToPath(uri), plat))

\* the loop body of isPathWithinRoots for one root
RootAdmits(uri, normalizedPath, plat) ==
    LET rootPath == normalizePath(uriToPath(uri), plat)
    IN  \/ normalizedPath = rootPath
        \/ StartsWith(normalizedPath, rootPath \o <<"/">>)

\* variant: an empty root list admits nothing
WithinRootsOf_EmptyListDenies(path, rs, init, supp, plat) ==
    IF ~init \/ ~supp THEN TRUE
    ELSE \E i \in 1..Len(rs) : RootAdmits(rs[i], normalizePath(path, plat), plat)

\* isPathWithinRoots(path) evaluated on a registry state
WithinRootsOf(path, rs, init, supp, plat) ==
    IF ~init \/ ~supp THEN TRUE
    ELSE IF Len(rs) = 0 THEN TRUE
    ELSE \E i \in 1..Len(rs) : RootAdmits(rs[i], normalizePath(path, plat), plat)

isPathWithinRoots(path) ==
    WithinRootsOf(path, roots, initialized, supported, platform)

(***************************************************************************)
(* types.ts: the Path Validator                                            *)
(***************************************************************************)
BLOCKED_LINUX_PATHS ==
    { <<"/","e","t","c","/">>,
      <<"/","p","r","o","c","/">>,
      <<"/","s","y","s","/">>,
      <<"/","v","a","r","/","l","o","g","/">>,
      <<"/","r","o","o","t","/">>,
      <<"/",".","s","s","h","/">> }

BLOCKED_WINDOWS_PATHS ==
    { <<"\\","w","i","n","d","o","w","s","\\">>,
      <<"\\","s","y","s","t","e","m","3","2","\\">>,
      <<"/","w","i","n","d","o","w","s","/">>,
      <<"/","s","y","s","t","e","m","3","2","/">> }

\* isLinuxPath(path)
isLinuxPath(path) ==
    IF StartsWith(path, <<"/">>)
    THEN IF MatchesSlashDrive(path) THEN FALSE ELSE TRUE
    ELSE FALSE

\* variant: only a marker followed by a separator counts as traversal
HasTraversal_BeforeSeparator(path) ==
    Includes(ReplaceBackslash(path), <<".",".","/">>)

\* the first check of isPathSafe: normalized.includes("..")
HasTraversal(path) == Includes(ReplaceBackslash(path), <<".",".">>)

\* variant: the denylists are matched without lower-casing the path
HitsDenylist_CaseSensitive(path) ==
    LET unified == ReplaceBackslash(path)
    IN  \/ \E p \in BLOCKED_LINUX_PATHS   : Includes(unified, p)
        \/ \E p \in BLOCKED_WINDOWS_PATHS : Includes(unified, p)

\* the second check of isPathSafe: the two denylists
HitsDenylist(path) ==
    LET lowerPath == ToLowerCase(ReplaceBackslash(path))
    IN  \/ \E p \in BLOCKED_LINUX_PATHS   : Includes(lowerPath, p)
        \/ \E p \in BLOCKED_WINDOWS_PATHS : Includes(lowerPath, p)

\* variant: the registry is never consulted
isPathSafeExit_NoRootCheck(path) ==
    IF HasTraversal(path) THEN "traversal"
    ELSE IF HitsDenylist(path) THEN "system"
    ELSE "safe"

\* the return statement of isPathSafe that path reaches; the registry is
\* consulted only when neither of the first two is taken
isPathSafeExit(path) ==
    IF HasTraversal(path) THEN "traversal"
    ELSE IF HitsDenylist(path) THEN "system"
    ELSE IF ~isPathWithinRoots(path) THEN "roots"
    ELSE "safe"

\* isPathSafe(path)
isPathSafe(path) == isPathSafeExit(path) = "safe"

\* filePathSchema / inputPathSchema / outputPathSchema: min(1) and the two
\* refinements; the field is accepted iff every check passes
PathSchemaAccepts(path) ==
    /\ Len(path) >= 1
    /\ ~isLinuxPath(path)
    /\ isPathSafe(path)

\* the messages of filePathSchema
MSG_REQUIRED == "File path is required"
MSG_LINUX    == "This looks like a Linux path but memvid.exe runs on Windows. Use Windows paths like C:\\Tools\\memvid-data\\file.mv2"
MSG_UNSAFE   == "Path contains unsafe patterns (path traversal or system paths not allowed)"

\* the issues filePathSchema reports for path, in the order of its checks:
\* a failed check does not stop the refinements that follow it
FilePathIssues(path) ==
    (IF Len(path) >= 1 THEN <<>> ELSE <<MSG_REQUIRED>>)
    \o (IF ~isLinuxPath(path) THEN <<>> ELSE <<MSG_LINUX>>)
    \o (IF isPathSafe(path) THEN <<>> ELSE <<MSG_UNSAFE>>)

(***************************************************************************)
(* Inputs: candidate paths and root URIs                                   *)
(***************************************************************************)
DrivePrefixes == { <<>>, <<"C",":">> }
Separators    == { <<"/">>, <<"\\">> }
Segments      == { <<>>, <<"a">>, <<".",".">>,
                   <<"E","t","c">>, <<"w","i","n","d","o","w","s">> }

RECURSIVE Tails(_)
Tails(n) ==
    IF n = 0 THEN { <<>> }
    ELSE Tails(n - 1) \cup
         { t \o sep \o seg : t \in Tails(n - 1), sep \in Separators, seg \in Segments }

CandidatePaths == { d \o t : d \in DrivePrefixes, t \in Tails(MaxSegs) }

URI_C_a   == FILE_SCHEME \o <<"/","C",":","/","a">>
URI_C_etc == FILE_SCHEME \o <<"/","C",":","/","E","t","c">>
URI_a     == FILE_SCHEME \o <<"/","a">>
URI_etc   == FILE_SCHEME \o <<"/","e","t","c">>
URI_C_w   == FILE_SCHEME \o <<"/","C",":","/","w","/">>

RootLists == { <<>>, <<URI_C_a>>, <<URI_C_etc, URI_a>>, <<URI_etc, URI_C_w>> }

(***************************************************************************)
(* Initial state                                                           *)
(***************************************************************************)
\* the worked example: one project root, a file in it, a file beside it, and
\* a path that climbs out of it
URI_project == FILE_SCHEME \o <<"/","h","o","m","e","/","u","s","e","r","/","p","r","o","j","e","c","t">>
P_notes     == <<"/","h","o","m","e","/","u","s","e","r","/","p","r","o","j","e","c","t","/","n","o","t","e","s",".","m","v","2">>
P_other     == <<"/","h","o","m","e","/","u","s","e","r","/","o","t","h","e","r","/","n","o","t","e","s",".","m","v","2">>
P_passwd    == <<"/","h","o","m","e","/","u","s","e","r","/","p","r","o","j","e","c","t","/",".",".","/",".",".","/","e","t","c","/","p","a","s","s","w","d">>
ScenarioPaths == { P_notes, P_other, P_passwd }

\* root lists a registry at rest may hold
RestLists == RootLists \cup { <<URI_project>> }

NoProbe == [done |-> FALSE]

NoOp == [op |-> "none"]

\* what a handler step leaves in lastOp: the step, the registry state and the
\* number of queries it found, and the answer it consumed
OpRecord(op, ans) ==
    [op |-> op, roots |-> roots, supported |-> supported,
     initialized |-> initialized, nextQ |-> nextQ, ans |-> ans]

RegInit ==
    /\ roots = <<>>
    /\ initialized = FALSE
    /\ supported = FALSE
    /\ lastOp = NoOp
    /\ clientRoots \in RootLists
    /\ pendingNotes = 0
    /\ queries = {}
    /\ nextQ = 0
    /\ initStarted = FALSE
    /\ platform \in {"win32", "linux"}

(***************************************************************************)
(* Root Registry operations                                                *)
(***************************************************************************)
\* server.oninitialized: initializeRoots() up to its await of listRootsFn()
InitializeRootsCall ==
    /\ nextQ + pendingNotes < MaxQueries
    /\ initStarted' = TRUE
    /\ nextQ' = nextQ + 1
    /\ queries' = queries \cup {[id |-> nextQ + 1, who |-> "init", st |-> "pending", ans |-> <<>>]}
    /\ UNCHANGED <<roots, initialized, supported, clientRoots, pendingNotes, lastOp, platform>>

\* the client sends roots/list_changed after changing its root set
ClientChangesRoots(new) ==
    /\ pendingNotes < MaxChanges
    /\ nextQ + pendingNotes < MaxQueries
    /\ new # clientRoots
    /\ clientRoots' = new
    /\ pendingNotes' = pendingNotes + 1
    /\ UNCHANGED <<roots, initialized, supported, queries, nextQ, initStarted, lastOp, platform>>

\* variant: the roots query is issued whether or not roots are supported
HandleRootsChangedCall_AlwaysQueries ==
    /\ pendingNotes > 0
    /\ pendingNotes' = pendingNotes - 1
    /\ nextQ' = nextQ + 1
    /\ queries' = queries \cup
         {[id |-> nextQ + 1, who |-> "changed", st |-> "pending", ans |-> <<>>]}
    /\ UNCHANGED lastOp
    /\ UNCHANGED <<roots, initialized, supported, clientRoots, initStarted, platform>>

\* handleRootsChanged() up to its await: returns at once when unsupported
HandleRootsChangedCall ==
    /\ pendingNotes > 0
    /\ pendingNotes' = pendingNotes - 1
    /\ IF ~supported
       THEN /\ lastOp' = OpRecord("changed-skipped", <<>>)
            /\ UNCHANGED <<queries, nextQ>>
       ELSE /\ nextQ' = nextQ + 1
            /\ queries' = queries \cup
                 {[id |-> nextQ + 1, who |-> "changed", st |-> "pending", ans |-> <<>>]}
            /\ UNCHANGED lastOp
    /\ UNCHANGED <<roots, initialized, supported, clientRoots, initStarted, platform>>

\* the client answers one roots/list request, successfully or with an error
ClientAnswers(q, ok) ==
    /\ q \in queries
    /\ q.st = "pending"
    /\ queries' = (queries \ {q}) \cup
         {[q EXCEPT !.st = IF ok THEN "ok" ELSE "fail",
                    !.ans = IF ok THEN clientRoots ELSE <<>>]}
    /\ UNCHANGED <<roots, initialized, supported, clientRoots, pendingNotes,
                   nextQ, initStarted, lastOp, platform>>

\* variant: the try branch adds the returned roots to those already held
InitializeRootsResume_Appends(q) ==
    /\ q \in queries
    /\ q.who = "init"
    /\ q.st # "pending"
    /\ queries' = queries \ {q}
    /\ lastOp' = OpRecord(IF q.st = "ok" THEN "init-ok" ELSE "init-failed", q.ans)
    /\ IF q.st = "ok"
       THEN /\ roots' = roots \o q.ans
            /\ supported' = TRUE
            /\ initialized' = TRUE
       ELSE /\ supported' = FALSE
            /\ initialized' = TRUE
            /\ UNCHANGED roots
    /\ UNCHANGED <<clientRoots, pendingNotes, nextQ, initStarted, platform>>

\* variant: the catch branch only marks the registry initialized
InitializeRootsResume_CatchKeepsSupport(q) ==
    /\ q \in queries
    /\ q.who = "init"
    /\ q.st # "pending"
    /\ queries' = queries \ {q}
    /\ lastOp' = OpRecord(IF q.st = "ok" THEN "init-ok" ELSE "init-failed", q.ans)
    /\ IF q.st = "ok"
       THEN /\ roots' = q.ans
            /\ supported' = TRUE
            /\ initialized' = TRUE
       ELSE /\ initialized' = TRUE
            /\ UNCHANGED <<roots, supported>>
    /\ UNCHANGED <<clientRoots, pendingNotes, nextQ, initStarted, platform>>

\* initializeRoots() after its await: try branch or catch branch
InitializeRootsResume(q) ==
    /\ q \in queries
    /\ q.who = "init"
    /\ q.st # "pending"
    /\ queries' = queries \ {q}
    /\ lastOp' = OpRecord(IF q.st = "ok" THEN "init-ok" ELSE "init-failed", q.ans)
    /\ IF q.st = "ok"
       THEN /\ roots' = q.ans
            /\ supported' = TRUE
            /\ initialized' = TRUE
       ELSE /\ supported' = FALSE
            /\ initialized' = TRUE
            /\ UNCHANGED roots
    /\ UNCHANGED <<clientRoots, pendingNotes, nextQ, initStarted, platform>>

\* variant: the returned roots are added to the list one handler at a time,
\* the entries of the old list staying until a later step removes them
HandleRootsChangedResume_Merges(q) ==
    /\ q \in queries
    /\ q.who = "changed"
    /\ q.st # "pending"
    /\ queries' = queries \ {q}
    /\ lastOp' = OpRecord(IF q.st = "ok" THEN "changed-ok" ELSE "changed-failed", q.ans)
    /\ IF q.st = "ok"
       THEN roots' = roots \o q.ans
       ELSE UNCHANGED roots
    /\ UNCHANGED <<initialized, supported, clientRoots, pendingNotes, nextQ,
                   initStarted, platform>>

\* variant: a failed query clears the root list
HandleRootsChangedResume_FailureClears(q) ==
    /\ q \in queries
    /\ q.who = "changed"
    /\ q.st # "pending"
    /\ queries' = queries \ {q}
    /\ lastOp' = OpRecord(IF q.st = "ok" THEN "changed-ok" ELSE "changed-failed", q.ans)
    /\ IF q.st = "ok"
       THEN roots' = q.ans
       ELSE roots' = <<>>
    /\ UNCHANGED <<initialized, supported, clientRoots, pendingNotes, nextQ,
                   initStarted, platform>>

\* handleRootsChanged() after its await: try branch or catch branch
HandleRootsChangedResume(q) ==
    /\ q \in queries
    /\ q.who = "changed"
    /\ q.st # "pending"
    /\ queries' = queries \ {q}
    /\ lastOp' = OpRecord(IF q.st = "ok" THEN "changed-ok" ELSE "changed-failed", q.ans)
    /\ IF q.st = "ok"
       THEN roots' = q.ans
       ELSE UNCHANGED roots
    /\ UNCHANGED <<initialized, supported, clientRoots, pendingNotes, nextQ,
                   initStarted, platform>>

RegistryStep ==
    \/ InitializeRootsCall
    \/ \E new \in RootLists : ClientChangesRoots(new)
    \/ HandleRootsChangedCall
    \/ \E q \in queries, ok \in BOOLEAN : ClientAnswers(q, ok)
    \/ \E q \in queries : InitializeRootsResume(q)
    \/ \E q \in queries : HandleRootsChangedResume(q)

(***************************************************************************)
(* More string primitives: trim, join, String(n), JSON.parse               *)
(***************************************************************************)
Whitespace == {" ", "\n", "\t", "\r"}

RECURSIVE TrimStart(_)
TrimStart(s) ==
    IF Len(s) > 0 /\ s[1] \in Whitespace THEN TrimStart(Tail(s)) ELSE s

RECURSIVE TrimEnd(_)
TrimEnd(s) ==
    IF Len(s) > 0 /\ s[Len(s)] \in Whitespace THEN TrimEnd(DropLast(s)) ELSE s

\* String.prototype.trim
Trim(s) == TrimEnd(TrimStart(s))

\* Array.prototype.join(sep)
RECURSIVE Join(_, _)
Join(parts, sep) ==
    IF Len(parts) = 0 THEN <<>>
    ELSE IF Len(parts) = 1 THEN parts[1]
    ELSE parts[1] \o sep \o Join(Tail(parts), sep)

Digits == <<"0","1","2","3","4","5","6","7","8","9">>

IsDigit(c)  == \E i \in 1..10 : Digits[i] = c
DigitVal(c) == (CHOOSE i \in 1..10 : Digits[i] = c) - 1

\* String(n) for a non-negative integer
RECURSIVE NumToStr(_)
NumToStr(n) ==
    IF n < 10 THEN <<Digits[n + 1]>>
    ELSE NumToStr(n \div 10) \o <<Digits[(n % 10) + 1]>>

RECURSIVE StrToNum(_)
StrToNum(s) ==
    IF Len(s) = 0 THEN 0
    ELSE 10 * StrToNum(DropLast(s)) + DigitVal(s[Len(s)])

\* JavaScript values carried as payloads
JSUndefined  == [t |-> "undefined"]
JSNull       == [t |-> "null"]
JSBool(b)    == [t |-> "boolean", b |-> b]
JSNumber(n)  == [t |-> "number", n |-> n]
JSString(s)  == [t |-> "string", s |-> s]
JSArray(xs)  == [t |-> "array", items |-> xs]

IsJSONNumber(s) ==
    /\ Len(s) > 0
    /\ \A i \in 1..Len(s) : IsDigit(s[i])
    /\ (Len(s) > 1 => s[1] # "0")

IsJSONString(s) ==
    /\ Len(s) >= 2
    /\ s[1] = "\"" /\ s[Len(s)] = "\""
    /\ \A i \in 2..(Len(s) - 1) : s[i] # "\"" /\ s[i] # "\\" /\ s[i] \notin Whitespace \ {" "}

\* JSON.parse(s) on the texts a modelled child can print: the literals, unsigned
\* integers and escape-free strings parse; every other text throws
JSONParse(s) ==
    LET t == Trim(s)
    IN  IF t = <<"n","u","l","l">> THEN [ok |-> TRUE, val |-> JSNull]
        ELSE IF t = <<"t","r","u","e">> THEN [ok |-> TRUE, val |-> JSBool(TRUE)]
        ELSE IF t = <<"f","a","l","s","e">> THEN [ok |-> TRUE, val |-> JSBool(FALSE)]
        ELSE IF IsJSONNumber(t) THEN [ok |-> TRUE, val |-> JSNumber(StrToNum(t))]
        ELSE IF IsJSONString(t) THEN [ok |-> TRUE, val |-> JSString(SubSeq(t, 2, Len(t) - 1))]
        ELSE [ok |-> FALSE, val |-> JSUndefined]

(***************************************************************************)
(* executor.ts: constants and buildArgs                                    *)
(***************************************************************************)
MAX_RETRIES      == 2
RETRY_DELAY_MS   == 100
TIMEOUT_DEFAULT  == 120000
TIMEOUT_HEAVY    == 300000

\* key.replace(/_/g, "-")
KebabKey(key) == [i \in 1..Len(key) |-> IF key[i] = "_" THEN "-" ELSE key[i]]

\* variant: every falsy value is skipped, 0 and the empty string included
OptionTokens_SkipsFalsy(key, value) ==
    LET flag == <<"-","-">> \o KebabKey(key)
    IN  IF value.t = "undefined" \/ value.t = "null" THEN <<>>
        ELSE IF value.t = "boolean" THEN (IF value.b THEN <<flag>> ELSE <<>>)
        ELSE IF value.t = "array" THEN <<flag, Join(value.items, <<",">>)>>
        ELSE IF value.t = "number"
             THEN (IF value.n = 0 THEN <<>> ELSE <<flag, NumToStr(value.n)>>)
        ELSE IF Len(value.s) = 0 THEN <<>>
        ELSE <<flag, value.s>>

\* the contribution of one [key, value] entry of Object.entries(options)
OptionTokens(key, value) ==
    LET flag == <<"-","-">> \o KebabKey(key)
    IN  IF value.t = "undefined" \/ value.t = "null" THEN <<>>
        ELSE IF value.t = "boolean" THEN (IF value.b THEN <<flag>> ELSE <<>>)
        ELSE IF value.t = "array" THEN <<flag, Join(value.items, <<",">>)>>
        ELSE IF value.t = "number" THEN <<flag, NumToStr(value.n)>>
        ELSE <<flag, value.s>>

\* buildArgs(baseArgs, options); options is the entry list in iteration order
RECURSIVE buildArgs(_, _)
buildArgs(baseArgs, options) ==
    IF Len(options) = 0 THEN baseArgs
    ELSE buildArgs(baseArgs \o OptionTokens(options[1].key, options[1].value),
                   Tail(options))

(***************************************************************************)
(* executor.ts: executeOnce                                                *)
(***************************************************************************)
NoResult == [pending |-> TRUE]

\* what cross-spawn's spawn() can do: start the process, report an
\* asynchronous 'error' event with an errno code, or throw synchronously
\* (argument rejected by child_process, e.g. a NUL byte, or E2BIG)
SpawnErrorCodes == {"ENOENT", "EACCES", "EAGAIN"}
SpawnOutcomes   == {"started", "throws"} \cup SpawnErrorCodes

ErrnoOf(code) ==
    IF code = "ENOENT" THEN -2 ELSE IF code = "EACCES" THEN -13 ELSE -11

\* the (code) argument of the 'close' event; signal = TRUE stands for code null
ExitStatuses == { [code |-> 0, signal |-> FALSE],
                  [code |-> 1, signal |-> FALSE],
                  [code |-> 0, signal |-> TRUE] }

StdoutChunks == { <<" ","7","\n">>, <<"n","u","l","l">>,
                  <<"n","o","t"," ","j","s","o","n">> }
StderrChunks == { <<"E","\n">> }

\* lines 34-50: buffers, spawn(), setTimeout()
NewChild(outcome) ==
    [ kind         |-> IF outcome = "started" THEN "started" ELSE "failed",
      errCode      |-> IF outcome = "started" THEN "" ELSE outcome,
      errorPending |-> outcome # "started",
      phase        |-> IF outcome = "started" THEN "running" ELSE "exited",
      exit         |-> IF outcome = "started" THEN [code |-> 0, signal |-> FALSE]
                       ELSE [code |-> ErrnoOf(outcome), signal |-> FALSE],
      outOpen      |-> TRUE,
      errOpen      |-> TRUE,
      closed       |-> FALSE,
      stdout       |-> <<>>,
      stderr       |-> <<>>,
      timer        |-> TRUE,
      elapsed      |-> 0,
      sigterms     |-> 0,
      drainedAtSettle |-> FALSE ]

\* lines 42-50: the value the timeout callback resolves with
TimeoutResult(cl) ==
    [ success  |-> FALSE,
      error    |-> [tmpl |-> "Command timed out after ${timeout}ms: memvid ${fullArgs}",
                    timeout |-> cl.timeout, args |-> cl.args],
      exitCode |-> -1 ]

\* variant: every spawn failure gets the generic hint
SpawnHint_Generic(errCode) == "Is MEMVID_PATH set correctly?"

\* lines 67-80: the value the 'error' handler resolves with
SpawnHint(errCode) ==
    IF errCode = "ENOENT" THEN "binary not found"
    ELSE IF errCode = "EACCES" THEN "permission denied"
    ELSE "Is MEMVID_PATH set correctly?"

SpawnErrorResult(errCode) ==
    [ success        |-> FALSE,
      error          |-> [tmpl |-> "Failed to spawn memvid: ${err.message}. ${hint}",
                          hint |-> SpawnHint(errCode)],
      exitCode       |-> -1,
      isSpawnError   |-> TRUE,
      spawnErrorCode |-> errCode ]

\* variant: standard output is preferred to standard error
FailureMessage_PrefersStdout(stderrStr, stdoutStr, cl, status) ==
    LET rawError == IF Len(stdoutStr) > 0 THEN stdoutStr
                    ELSE IF Len(stderrStr) > 0 THEN stderrStr
                    ELSE <<>>
    IN  IF Len(rawError) > 0
        THEN [tmpl |-> "${raw}", raw |-> rawError]
        ELSE [tmpl |-> "memvid ${command} failed with exit code ${code}.",
              command |-> cl.command, code |-> status]

\* variant: the captured text is used even when it is empty
FailureMessage_NoFallback(stderrStr, stdoutStr, cl, status) ==
    [tmpl |-> "${raw}",
     raw  |-> IF Len(stderrStr) > 0 THEN stderrStr ELSE stdoutStr]

\* lines 120-121: stderrStr || stdoutStr || "", then the generic message
FailureMessage(stderrStr, stdoutStr, cl, status) ==
    LET rawError == IF Len(stderrStr) > 0 THEN stderrStr
                    ELSE IF Len(stdoutStr) > 0 THEN stdoutStr
                    ELSE <<>>
    IN  IF Len(rawError) > 0
        THEN [tmpl |-> "${raw}", raw |-> rawError]
        ELSE [tmpl |-> "memvid ${command} failed with exit code ${code}.",
              command |-> cl.command, code |-> status]

\* variant: a missing exit code is reported as 0
CloseResult_NoCodeAsZero(c, cl) ==
    LET stdoutStr == Trim(Join(c.stdout, <<>>))
        stderrStr == Trim(Join(c.stderr, <<>>))
        parsed    == JSONParse(stdoutStr)
    IN  IF ~c.exit.signal /\ c.exit.code = 0
        THEN IF cl.skipJson
             THEN [success |-> TRUE, data |-> JSString(stdoutStr), exitCode |-> 0]
             ELSE IF parsed.ok
             THEN [success |-> TRUE, data |-> parsed.val, exitCode |-> 0]
             ELSE [success |-> TRUE, data |-> JSString(stdoutStr), exitCode |-> 0]
        ELSE [ success  |-> FALSE,
               error    |-> FailureMessage(stderrStr, stdoutStr, cl, c.exit),
               stderr   |-> stderrStr,
               exitCode |-> IF c.exit.signal THEN 0 ELSE c.exit.code ]

\* variant: a JSON parse failure is surfaced as a failure of the call
CloseResult_StrictJson(c, cl) ==
    LET stdoutStr == Trim(Join(c.stdout, <<>>))
        stderrStr == Trim(Join(c.stderr, <<>>))
        parsed    == JSONParse(stdoutStr)
    IN  IF ~c.exit.signal /\ c.exit.code = 0
        THEN IF cl.skipJson
             THEN [success |-> TRUE, data |-> JSString(stdoutStr), exitCode |-> 0]
             ELSE IF parsed.ok
             THEN [success |-> TRUE, data |-> parsed.val, exitCode |-> 0]
             ELSE [success |-> FALSE,
                   error |-> [tmpl |-> "JSON parse failed", raw |-> stdoutStr],
                   exitCode |-> 0]
        ELSE [ success  |-> FALSE,
               error    |-> FailureMessage(stderrStr, stdoutStr, cl, c.exit),
               stderr   |-> stderrStr,
               exitCode |-> IF c.exit.signal THEN -1 ELSE c.exit.code ]

\* lines 83-128: the value the 'close' handler resolves with
CloseResult(c, cl) ==
    LET stdoutStr == Trim(Join(c.stdout, <<>>))
        stderrStr == Trim(Join(c.stderr, <<>>))
        parsed    == JSONParse(stdoutStr)
    IN  IF ~c.exit.signal /\ c.exit.code = 0
        THEN IF cl.skipJson
             THEN [success |-> TRUE, data |-> JSString(stdoutStr), exitCode |-> 0]
             ELSE IF parsed.ok
             THEN [success |-> TRUE, data |-> parsed.val, exitCode |-> 0]
             ELSE [success |-> TRUE, data |-> JSString(stdoutStr), exitCode |-> 0]
        ELSE [ success  |-> FALSE,
               error    |-> FailureMessage(stderrStr, stdoutStr, cl, c.exit),
               stderr   |-> stderrStr,
               exitCode |-> IF c.exit.signal THEN -1 ELSE c.exit.code ]

(***************************************************************************)
(* logger.ts and the log() calls of executor.ts.  An entry holds the level, *)
(* the message template, and the strings and numbers the message and the   *)
(* JSON-rendered data interpolate; the timestamp is left out.              *)
(***************************************************************************)
MEMVID_PATH == <<"m","e","m","v","i","d">>

LogEntry(level, msg, text, nums) ==
    [level |-> level, msg |-> msg, text |-> text, nums |-> nums]

\* args[0] || "unknown"
CommandOf(args) ==
    IF Len(args) > 0 /\ Len(args[1]) > 0 THEN args[1]
    ELSE <<"u","n","k","n","o","w","n">>

\* lines 13-24 with MEMVID_PATH unset: the default name counts as existing
LogPathVerified ==
    LogEntry("info", "Memvid path verified: ${MEMVID_PATH}", <<MEMVID_PATH>>, <<>>)

\* line 154, with args.slice(1, 3)
LogExecuting(args) ==
    LogEntry("debug", "Executing: memvid ${command}",
             <<CommandOf(args)>> \o
               SubSeq(args, 2, IF Len(args) < 3 THEN Len(args) ELSE 3),
             <<>>)

\* line 44
LogTimeout(cl) ==
    LogEntry("warning", "Command timeout: memvid ${command}",
             <<cl.command>>, <<cl.timeout>>)

\* the characters of an errno name
CodeText(code) ==
    IF code = "ENOENT" THEN <<"E","N","O","E","N","T">>
    ELSE IF code = "EACCES" THEN <<"E","A","C","C","E","S">>
    ELSE <<"E","A","G","A","I","N">>

\* lines 62-66; err.message is "spawn <path> <code>"
LogSpawnFailed(cl, errCode) ==
    LogEntry("error", "Spawn failed: ${err.message}",
             <<MEMVID_PATH, CodeText(errCode), MEMVID_PATH, cl.command,
               CodeText(errCode)>>, <<>>)

\* lines 91, 100, 107-110, 119: the one log() call of the close handler; the
\* message of the parse error quotes the text that failed to parse
LogClose(c, cl) ==
    LET stdoutStr == Trim(Join(c.stdout, <<>>))
    IN  IF ~c.exit.signal /\ c.exit.code = 0
        THEN IF cl.skipJson \/ JSONParse(stdoutStr).ok
             THEN LogEntry("debug", "Command success: memvid ${command}",
                           <<cl.command>>, <<>>)
             ELSE LogEntry("warning", "JSON parse failed for: memvid ${command}",
                           <<cl.command, stdoutStr>>, <<Len(stdoutStr)>>)
        ELSE IF c.exit.signal
        THEN LogEntry("info", "Command failed: memvid ${command}",
                      <<cl.command, <<"n","u","l","l">> >>, <<>>)
        ELSE LogEntry("info", "Command failed: memvid ${command}",
                      <<cl.command>>, <<c.exit.code>>)

(***************************************************************************)
(* executor.ts: executeMemvid                                              *)
(***************************************************************************)
NoCall == [tool |-> "none"]

IsSpawnError(r) == "isSpawnError" \in DOMAIN r /\ r.isSpawnError

\* lines 145-151: fullArgs
FullArgs(args, skipJson) ==
    args \o (IF skipJson THEN <<>> ELSE << <<"-","-","j","s","o","n">> >>)
         \o (IF verbose THEN << <<"-","-","v","e","r","b","o","s","e">> >> ELSE <<>>)

\* variant: the entry log carries the whole argument vector
ExecuteMemvidEnter_LogsAllArgs(tool, fields, args, timeout, skipJson, outcome) ==
    /\ call' = [ tool      |-> tool,
                 fields    |-> fields,
                 given     |-> args,
                 args      |-> FullArgs(args, skipJson),
                 command   |-> CommandOf(args),
                 timeout   |-> timeout,
                 skipJson  |-> skipJson ]
    /\ attempt' = 0
    /\ returned' = NoResult
    /\ delays' = <<>>
    /\ logs' = <<LogPathVerified, LogEntry("debug", "Executing: memvid ${command}",
                                         <<CommandOf(args)>> \o args, <<>>)>>
    /\ IF outcome = "throws"
       THEN /\ pc' = "rejected"
            /\ children' = <<>>
            /\ results' = <<>>
       ELSE /\ pc' = "await"
            /\ children' = <<NewChild(outcome)>>
            /\ results' = <<NoResult>>

\* lines 136-164 up to the first await: the first executeOnce() and its spawn()
ExecuteMemvidEnter(tool, fields, args, timeout, skipJson, outcome) ==
    /\ call' = [ tool      |-> tool,
                 fields    |-> fields,
                 given     |-> args,
                 args      |-> FullArgs(args, skipJson),
                 command   |-> CommandOf(args),
                 timeout   |-> timeout,
                 skipJson  |-> skipJson ]
    /\ attempt' = 0
    /\ returned' = NoResult
    /\ delays' = <<>>
    /\ logs' = <<LogPathVerified, LogExecuting(args)>>
    /\ IF outcome = "throws"
       THEN /\ pc' = "rejected"
            /\ children' = <<>>
            /\ results' = <<>>
       ELSE /\ pc' = "await"
            /\ children' = <<NewChild(outcome)>>
            /\ results' = <<NoResult>>

\* the log() calls executeMemvid makes when resolve(r) of attempt k lets it
\* continue: line 172 after a spawn failure, then line 160 when the loop goes
\* round again
AwaitLogs(k, r) ==
    IF results[k] # NoResult THEN <<>>
    ELSE IF r.success \/ ~IsSpawnError(r) THEN <<>>
    ELSE << LogEntry("warning",
                     "Spawn error on attempt ${attempt + 1}, will retry",
                     <<CodeText(r.spawnErrorCode)>>, <<attempt + 1>>) >>
         \o (IF attempt + 1 <= MAX_RETRIES
             THEN << LogEntry("info",
                              "Retry ${attempt}/${MAX_RETRIES} for: memvid ${command}",
                              <<call.command>>, <<attempt + 1, MAX_RETRIES>>) >>
             ELSE <<>>)

\* variant: the same delay before every retry
Settle_ConstantDelay(k, r) ==
    IF results[k] # NoResult
    THEN UNCHANGED <<pc, attempt, results, returned, delays>>
    ELSE /\ results' = [results EXCEPT ![k] = r]
         /\ IF r.success \/ ~IsSpawnError(r)
            THEN /\ pc' = "done"
                 /\ returned' = r
                 /\ UNCHANGED <<attempt, delays>>
            ELSE IF attempt + 1 <= MAX_RETRIES
            THEN /\ attempt' = attempt + 1
                 /\ pc' = "sleep"
                 /\ delays' = Append(delays, RETRY_DELAY_MS)
                 /\ UNCHANGED returned
            ELSE /\ attempt' = attempt + 1
                 /\ pc' = "done"
                 /\ returned' = r
                 /\ UNCHANGED delays

\* variant: a later event of the attempt replaces the result already given
Settle_LastEventWins(k, r) ==
    IF results[k] # NoResult
    THEN /\ results' = [results EXCEPT ![k] = r]
         /\ returned' = IF pc = "done" THEN r ELSE returned
         /\ UNCHANGED <<pc, attempt, delays>>
    ELSE /\ results' = [results EXCEPT ![k] = r]
         /\ IF r.success \/ ~IsSpawnError(r)
            THEN /\ pc' = "done"
                 /\ returned' = r
                 /\ UNCHANGED <<attempt, delays>>
            ELSE IF attempt + 1 <= MAX_RETRIES
            THEN /\ attempt' = attempt + 1
                 /\ pc' = "sleep"
                 /\ delays' = Append(delays, RETRY_DELAY_MS * (attempt + 1))
                 /\ UNCHANGED returned
            ELSE /\ attempt' = attempt + 1
                 /\ pc' = "done"
                 /\ returned' = r
                 /\ UNCHANGED delays

\* variant: the loop bound admits one attempt more
Settle_ExtraRetry(k, r) ==
    IF results[k] # NoResult
    THEN UNCHANGED <<pc, attempt, results, returned, delays>>
    ELSE /\ results' = [results EXCEPT ![k] = r]
         /\ IF r.success \/ ~IsSpawnError(r)
            THEN /\ pc' = "done"
                 /\ returned' = r
                 /\ UNCHANGED <<attempt, delays>>
            ELSE IF attempt + 1 <= MAX_RETRIES + 1
            THEN /\ attempt' = attempt + 1
                 /\ pc' = "sleep"
                 /\ delays' = Append(delays, RETRY_DELAY_MS * (attempt + 1))
                 /\ UNCHANGED returned
            ELSE /\ attempt' = attempt + 1
                 /\ pc' = "done"
                 /\ returned' = r
                 /\ UNCHANGED delays

\* variant: every failed attempt is retried, not only spawn failures
Settle_RetryAnyFailure(k, r) ==
    IF results[k] # NoResult
    THEN UNCHANGED <<pc, attempt, results, returned, delays>>
    ELSE /\ results' = [results EXCEPT ![k] = r]
         /\ IF r.success
            THEN /\ pc' = "done"
                 /\ returned' = r
                 /\ UNCHANGED <<attempt, delays>>
            ELSE IF attempt + 1 <= MAX_RETRIES
            THEN /\ attempt' = attempt + 1
                 /\ pc' = "sleep"
                 /\ delays' = Append(delays, RETRY_DELAY_MS * (attempt + 1))
                 /\ UNCHANGED returned
            ELSE /\ attempt' = attempt + 1
                 /\ pc' = "done"
                 /\ returned' = r
                 /\ UNCHANGED delays

\* resolve(r) of attempt k followed, when the promise was still pending, by the
\* continuation of executeMemvid after its await (lines 164-177 and 158-162)
Settle(k, r) ==
    IF results[k] # NoResult
    THEN UNCHANGED <<pc, attempt, results, returned, delays>>
    ELSE /\ results' = [results EXCEPT ![k] = r]
         /\ IF r.success \/ ~IsSpawnError(r)
            THEN /\ pc' = "done"
                 /\ returned' = r
                 /\ UNCHANGED <<attempt, delays>>
            ELSE IF attempt + 1 <= MAX_RETRIES
            THEN /\ attempt' = attempt + 1
                 /\ pc' = "sleep"
                 /\ delays' = Append(delays, RETRY_DELAY_MS * (attempt + 1))
                 /\ UNCHANGED returned
            ELSE /\ attempt' = attempt + 1
                 /\ pc' = "done"
                 /\ returned' = r
                 /\ UNCHANGED delays

\* variant: the next attempt is started without awaiting the one in progress
RetryAttempt_WithoutAwaiting(outcome) ==
    /\ pc \in {"await", "sleep"}
    /\ Len(children) <= MAX_RETRIES
    /\ IF outcome = "throws"
       THEN /\ pc' = "rejected"
            /\ UNCHANGED <<children, results>>
       ELSE /\ pc' = "await"
            /\ children' = Append(children, NewChild(outcome))
            /\ results' = Append(results, NoResult)
    /\ UNCHANGED <<verbose, call, attempt, returned, delays, logs>>

\* the sleep() of line 161 elapses and line 164 calls executeOnce() again; Node
\* emits the 'close' of a process that failed to spawn in the same turn as its
\* 'error', so that child has closed before the sleep timer can run
RetryAttempt(outcome) ==
    /\ pc = "sleep"
    /\ children[Len(children)].closed
    /\ IF outcome = "throws"
       THEN /\ pc' = "rejected"
            /\ UNCHANGED <<children, results>>
       ELSE /\ pc' = "await"
            /\ children' = Append(children, NewChild(outcome))
            /\ results' = Append(results, NoResult)
    /\ UNCHANGED <<verbose, call, attempt, returned, delays, logs>>

(***************************************************************************)
(* The child process and the three callbacks of executeOnce                *)
(***************************************************************************)
Streaming(k) ==
    /\ k \in 1..Len(children)
    /\ children[k].kind = "started"

\* child.stdout.on("data")
StdoutData(k, chunk) ==
    /\ Streaming(k)
    /\ children[k].outOpen
    /\ Len(children[k].stdout) < MaxOut
    /\ children' = [children EXCEPT ![k].stdout = Append(@, chunk)]
    /\ UNCHANGED <<verbose, pc, call, attempt, results, returned, delays, logs>>

\* child.stderr.on("data")
StderrData(k, chunk) ==
    /\ Streaming(k)
    /\ children[k].errOpen
    /\ Len(children[k].stderr) < MaxErr
    /\ children' = [children EXCEPT ![k].stderr = Append(@, chunk)]
    /\ UNCHANGED <<verbose, pc, call, attempt, results, returned, delays, logs>>

\* a stdio stream of the child reaches its end
StdoutEnd(k) ==
    /\ Streaming(k)
    /\ children[k].outOpen
    /\ children' = [children EXCEPT ![k].outOpen = FALSE]
    /\ UNCHANGED <<verbose, pc, call, attempt, results, returned, delays, logs>>

StderrEnd(k) ==
    /\ Streaming(k)
    /\ children[k].errOpen
    /\ children' = [children EXCEPT ![k].errOpen = FALSE]
    /\ UNCHANGED <<verbose, pc, call, attempt, results, returned, delays, logs>>

\* the process terminates: on its own, by the SIGTERM of the timeout, or by a
\* signal from outside the adapter
ChildExit(k, status) ==
    /\ Streaming(k)
    /\ children[k].phase = "running"
    /\ children' = [children EXCEPT ![k].phase = "exited", ![k].exit = status]
    /\ UNCHANGED <<verbose, pc, call, attempt, results, returned, delays, logs>>

TimePoints == {TIMEOUT_DEFAULT, TIMEOUT_HEAVY}

\* time passes for attempt k while its timer is armed
Tick(k, t) ==
    /\ k \in 1..Len(children)
    /\ children[k].timer
    /\ ~children[k].errorPending
    /\ children[k].elapsed < call.timeout
    /\ t > children[k].elapsed
    /\ t <= call.timeout
    /\ children' = [children EXCEPT ![k].elapsed = t]
    /\ UNCHANGED <<verbose, pc, call, attempt, results, returned, delays, logs>>

Drained(c) == ~c.outOpen /\ ~c.errOpen

\* variant: the callback runs without waiting for the configured duration
TimeoutFires_Early(k) ==
    /\ k \in 1..Len(children)
    /\ children[k].timer
    /\ ~children[k].errorPending
    /\ children' = [children EXCEPT ![k].timer = FALSE,
                                    ![k].sigterms = @ + 1,
                                    ![k].drainedAtSettle =
                                        IF results[k] = NoResult THEN Drained(children[k]) ELSE @]
    /\ Settle(k, TimeoutResult(call))
    /\ logs' = logs \o <<LogTimeout(call)>> \o AwaitLogs(k, TimeoutResult(call))
    /\ UNCHANGED <<verbose, call>>

\* lines 42-50: the setTimeout callback
TimeoutFires(k) ==
    /\ k \in 1..Len(children)
    /\ children[k].timer
    /\ children[k].elapsed >= call.timeout
    /\ children' = [children EXCEPT ![k].timer = FALSE,
                                    ![k].sigterms = @ + 1,
                                    ![k].drainedAtSettle =
                                        IF results[k] = NoResult THEN Drained(children[k]) ELSE @]
    /\ Settle(k, TimeoutResult(call))
    /\ logs' = logs \o <<LogTimeout(call)>> \o AwaitLogs(k, TimeoutResult(call))
    /\ UNCHANGED <<verbose, call>>

\* lines 60-81: child.on("error")
ErrorEvent(k) ==
    /\ k \in 1..Len(children)
    /\ children[k].errorPending
    /\ children' = [children EXCEPT ![k].errorPending = FALSE,
                                    ![k].timer = FALSE,
                                    ![k].drainedAtSettle =
                                        IF results[k] = NoResult THEN Drained(children[k]) ELSE @]
    /\ Settle(k, SpawnErrorResult(children[k].errCode))
    /\ logs' = logs \o <<LogSpawnFailed(call, children[k].errCode)>> \o AwaitLogs(k, SpawnErrorResult(children[k].errCode))
    /\ UNCHANGED <<verbose, call>>

\* variant: the handler does not cancel the timer
CloseEvent_KeepsTimer(k) ==
    /\ k \in 1..Len(children)
    /\ ~children[k].closed
    /\ ~children[k].errorPending
    /\ children[k].phase = "exited"
    /\ children[k].kind = "started" => Drained(children[k])
    /\ children' = [children EXCEPT ![k].closed = TRUE,
                                    ![k].outOpen = FALSE,
                                    ![k].errOpen = FALSE,
                                    ![k].drainedAtSettle =
                                        IF results[k] = NoResult THEN Drained(children[k]) ELSE @]
    /\ Settle(k, CloseResult(children[k], call))
    /\ logs' = logs \o <<LogClose(children[k], call)>> \o AwaitLogs(k, CloseResult(children[k], call))
    /\ UNCHANGED <<verbose, call>>

\* variant: the handler is attached to the end of the process ('exit'), which
\* does not wait for the stdio streams
CloseEvent_AtExit(k) ==
    /\ k \in 1..Len(children)
    /\ ~children[k].closed
    /\ ~children[k].errorPending
    /\ children[k].phase = "exited"
    /\ children' = [children EXCEPT ![k].closed = TRUE,
                                    ![k].timer = FALSE,
                                    ![k].drainedAtSettle =
                                        IF results[k] = NoResult THEN Drained(children[k]) ELSE @]
    /\ Settle(k, CloseResult(children[k], call))
    /\ logs' = logs \o <<LogClose(children[k], call)>> \o AwaitLogs(k, CloseResult(children[k], call))
    /\ UNCHANGED <<verbose, call>>

\* lines 83-129: child.on("close"); Node emits 'close' once the process has
\* ended and both stdio streams have ended (for a process that failed to
\* spawn, after its 'error' event, when its unused pipes are torn down)
CloseEvent(k) ==
    /\ k \in 1..Len(children)
    /\ ~children[k].closed
    /\ ~children[k].errorPending
    /\ children[k].phase = "exited"
    /\ children[k].kind = "started" => Drained(children[k])
    /\ children' = [children EXCEPT ![k].closed = TRUE,
                                    ![k].outOpen = FALSE,
                                    ![k].errOpen = FALSE,
                                    ![k].timer = FALSE,
                                    ![k].drainedAtSettle =
                                        IF results[k] = NoResult THEN Drained(children[k]) ELSE @]
    /\ Settle(k, CloseResult(children[k], call))
    /\ logs' = logs \o <<LogClose(children[k], call)>> \o AwaitLogs(k, CloseResult(children[k], call))
    /\ UNCHANGED <<verbose, call>>

ExecutorStep ==
    \/ \E o \in SpawnOutcomes : RetryAttempt(o)
    \/ \E k \in 1..Len(children), ch \in StdoutChunks : StdoutData(k, ch)
    \/ \E k \in 1..Len(children), ch \in StderrChunks : StderrData(k, ch)
    \/ \E k \in 1..Len(children) : StdoutEnd(k)
    \/ \E k \in 1..Len(children) : StderrEnd(k)
    \/ \E k \in 1..Len(children), st \in ExitStatuses : ChildExit(k, st)
    \/ \E k \in 1..Len(children), t \in TimePoints : Tick(k, t)
    \/ \E k \in 1..Len(children) : TimeoutFires(k)
    \/ \E k \in 1..Len(children) : ErrorEvent(k)
    \/ \E k \in 1..Len(children) : CloseEvent(k)

(***************************************************************************)
(* Tool registrations                                                      *)
(***************************************************************************)
S_put      == <<"p","u","t">>
S_lock     == <<"l","o","c","k">>
S_version  == <<"v","e","r","s","i","o","n">>
S_input    == <<"-","-","i","n","p","u","t">>
S_output   == <<"-","-","o","u","t","p","u","t">>
K_recursive == <<"r","e","c","u","r","s","i","v","e">>
K_parallel  == <<"p","a","r","a","l","l","e","l">>
K_embed     == <<"e","m","b","e","d">>
K_log       == <<"l","o","g">>
K_password  == <<"p","a","s","s","w","o","r","d">>

P_safe      == <<"C",":","\\","a">>
P_traversal == <<"C",":","\\",".",".","\\","a">>
P_system    == <<"C",":","\\","w","i","n","d","o","w","s","\\","a">>
P_linux     == <<"/","a">>

ToolPaths   == {P_safe, P_traversal, P_system, P_linux}
Passwords   == { <<"p","w">> }

Opt(S) == {JSUndefined} \cup {JSString(x) : x \in S}

\* write.ts, memvid_put: schema (lines 51-58) and handler (lines 61-70)
MemvidPut(file, input, recursive, log, present, outcome) ==
    /\ pc = "idle"
    /\ IF ~(PathSchemaAccepts(file) /\ PathSchemaAccepts(input))
       THEN /\ pc' = "invalid"
            /\ UNCHANGED <<call, attempt, children, results, returned, delays, logs>>
       ELSE IF ~present
       THEN /\ pc' = "notfound"
            /\ UNCHANGED <<call, attempt, children, results, returned, delays, logs>>
       ELSE ExecuteMemvidEnter(
              "memvid_put",
              [file |-> JSString(file), input |-> JSString(input), log |-> log],
              buildArgs(<<S_put, S_input, input, file>>,
                        << [key |-> K_recursive, value |-> recursive],
                           [key |-> K_parallel,  value |-> JSUndefined],
                           [key |-> K_embed,     value |-> JSUndefined],
                           [key |-> K_log,       value |-> log] >>),
              TIMEOUT_HEAVY, FALSE, outcome)
    /\ UNCHANGED verbose

\* crypto.ts, memvid_lock: schema (lines 10-14) and handler (lines 15-19)
MemvidLock(file, output, password, outcome) ==
    /\ pc = "idle"
    /\ IF ~(PathSchemaAccepts(file) /\ Len(output) >= 1)
       THEN /\ pc' = "invalid"
            /\ UNCHANGED <<call, attempt, children, results, returned, delays, logs>>
       ELSE ExecuteMemvidEnter(
              "memvid_lock",
              [file |-> JSString(file), output |-> JSString(output)],
              buildArgs(<<S_lock, S_output, output, file>>,
                        << [key |-> K_password, value |-> password] >>),
              TIMEOUT_DEFAULT, FALSE, outcome)
    /\ UNCHANGED verbose

\* utility.ts, memvid_version (lines 44-53)
MemvidVersion(outcome) ==
    /\ pc = "idle"
    /\ ExecuteMemvidEnter("memvid_version", [none |-> JSUndefined],
                          <<S_version>>, TIMEOUT_DEFAULT, TRUE, outcome)
    /\ UNCHANGED verbose

\* a direct call executeMemvid(args, {timeout, skipJson}) with the argument
\* vectors, timeouts and flags the three handlers above pass
Callers ==
    { [args |-> buildArgs(<<S_put, S_input, P_safe, P_safe>>,
                          << [key |-> K_recursive, value |-> JSBool(TRUE)] >>),
       timeout |-> TIMEOUT_HEAVY, skipJson |-> FALSE],
      [args |-> buildArgs(<<S_lock, S_output, P_safe, P_safe>>,
                          << [key |-> K_password, value |-> JSString(<<"p","w">>)] >>),
       timeout |-> TIMEOUT_DEFAULT, skipJson |-> FALSE],
      [args |-> <<S_version>>, timeout |-> TIMEOUT_DEFAULT, skipJson |-> TRUE] }

ExecuteMemvid(c, outcome) ==
    /\ pc = "idle"
    /\ ExecuteMemvidEnter("direct", [none |-> JSUndefined],
                          c.args, c.timeout, c.skipJson, outcome)
    /\ UNCHANGED verbose

ToolStep ==
    \/ \E file \in ToolPaths, input \in ToolPaths,
          recursive \in {JSUndefined, JSBool(TRUE)}, log \in Opt(ToolPaths),
          present \in BOOLEAN, o \in SpawnOutcomes :
            MemvidPut(file, input, recursive, log, present, o)
    \/ \E file \in ToolPaths, output \in ToolPaths, password \in Opt(Passwords),
          o \in SpawnOutcomes :
            MemvidLock(file, output, password, o)
    \/ \E o \in SpawnOutcomes : MemvidVersion(o)

(***************************************************************************)
(* Application of the Path Validator to one candidate path                 *)
(***************************************************************************)
ValidatePath(p) ==
    /\ ~probe.done
    /\ probe' = [done      |-> TRUE,
                 path      |-> p,
                 linux     |-> isLinuxPath(p),
                 within    |-> isPathWithinRoots(p),
                 exit      |-> isPathSafeExit(p),
                 safe      |-> isPathSafe(p),
                 accepted  |-> PathSchemaAccepts(p),
                 issues    |-> FilePathIssues(p)]
    /\ UNCHANGED regVars
    /\ UNCHANGED execVars

vars == <<roots, initialized, supported, clientRoots, pendingNotes,
          queries, nextQ, initStarted, lastOp, platform, probe,
          verbose, pc, call, attempt, children, results, returned, delays, logs>>

ExecIdle ==
    /\ verbose \in BOOLEAN
    /\ pc = "idle"
    /\ call = NoCall
    /\ attempt = 0
    /\ children = <<>>
    /\ results = <<>>
    /\ returned = NoResult
    /\ delays = <<>>
    /\ logs = <<>>

(***************************************************************************)
(* Specifications                                                          *)
(***************************************************************************)
\* the registry states the handlers can produce: not yet initialized,
\* initialized without the capability, or initialized with a root list
RegistryAtRest ==
    /\ platform \in {"win32", "linux"}
    /\ \/ initialized = FALSE /\ supported = FALSE /\ roots = <<>>
       \/ initialized = TRUE  /\ supported = FALSE /\ roots \in RestLists
       \/ initialized = TRUE  /\ supported = TRUE  /\ roots \in RestLists
    /\ clientRoots = roots
    /\ lastOp = NoOp
    /\ pendingNotes = 0
    /\ queries = {}
    /\ nextQ = 0
    /\ initStarted = initialized

RegistryFresh ==
    /\ RegInit
    /\ clientRoots = <<>>
    /\ platform = "win32"

\* Spec: one executeMemvid call, its attempts and their child processes
Init == RegistryFresh /\ ExecIdle /\ probe = NoProbe

Next ==
    \/ \E c \in Callers, o \in SpawnOutcomes :
          ExecuteMemvid(c, o) /\ UNCHANGED <<probe, regVars>>
    \/ ExecutorStep /\ UNCHANGED <<probe, regVars>>

Spec == Init /\ [][Next]_vars

\* SpecTools: a tool invocation from schema validation to its first spawn
ToolsInit == RegistryAtRest /\ ExecIdle /\ probe = NoProbe

ToolsNext == ToolStep /\ UNCHANGED <<probe, regVars>>

SpecTools == ToolsInit /\ [][ToolsNext]_vars

\* SpecPaths: the Path Validator applied to a candidate path
PathInit == RegistryAtRest /\ ExecIdle /\ probe = NoProbe

PathNext == \E p \in CandidatePaths \cup ScenarioPaths : ValidatePath(p)

SpecPaths == PathInit /\ [][PathNext]_vars

\* SpecRoots: the Root Registry and the client's roots protocol
RootsInit == RegInit /\ ExecIdle /\ probe = NoProbe

RootsNext == RegistryStep /\ UNCHANGED <<probe, execVars>>

SpecRoots == RootsInit /\ [][RootsNext]_vars

\* SpecConverge: a client that supports roots and answers every roots/list
\* request.  The connection delivers messages in order, so an answer is taken
\* up by its handler before the client's next answer is: one answer is under
\* way at a time.  A notification is dispatched one microtask after it is
\* read, hence it may be handled between the arrival of an answer and the
\* continuation of the handler awaiting that answer.
ClientAnswersInOrder(q) ==
    /\ \A other \in queries : other.st = "pending"
    /\ ClientAnswers(q, TRUE)

ConvergeNext ==
    /\ \/ InitializeRootsCall
       \/ \E new \in RootLists : ClientChangesRoots(new)
       \/ HandleRootsChangedCall
       \/ \E q \in queries : ClientAnswersInOrder(q)
       \/ \E q \in queries : InitializeRootsResume(q)
       \/ \E q \in queries : HandleRootsChangedResume(q)
    /\ UNCHANGED <<probe, execVars>>

SpecConverge == RootsInit /\ [][ConvergeNext]_vars

(***************************************************************************)
(* Application of buildArgs to one base vector and one options object      *)
(***************************************************************************)
S_file   == <<"f","i","l","e",".","e","x","t">>
K_limit  == <<"l","i","m","i","t">>
K_tags   == <<"t","a","g","s">>

\* Object.entries() of the options objects with at most n keys: every key
\* occurs once
RECURSIVE EntryLists(_)
EntryLists(n) ==
    IF n = 0 THEN { <<>> }
    ELSE LET shorter == EntryLists(n - 1)
         IN  shorter \cup
             { Append(es, [key |-> k, value |-> v]) :
                 es \in {e \in shorter : Len(e) = n - 1},
                 k \in { K_recursive, K_limit, K_tags,
                         <<"n","o","_","l","o","g">> },
                 v \in { JSUndefined, JSNull, JSBool(TRUE), JSBool(FALSE),
                         JSNumber(5), JSNumber(0), JSString(<<"a">>),
                         JSString(<<>>), JSArray(<< <<"a">>, <<"b">> >>),
                         JSArray(<<>>) } }

\* {recursive: true, limit: 5, tags: ["a", "b"]}
ExampleOptions ==
    << [key |-> K_recursive, value |-> JSBool(TRUE)],
       [key |-> K_limit,     value |-> JSNumber(5)],
       [key |-> K_tags,      value |-> JSArray(<< <<"a">>, <<"b">> >>)] >>

\* line 184: args is a copy, so the caller's array stays what it was
BuildArgsCall ==
    /\ ~probe.done
    /\ probe' = [done    |-> TRUE,
                 base    |-> probe.base,
                 given   |-> probe.base,
                 options |-> probe.options,
                 result  |-> buildArgs(probe.base, probe.options)]
    /\ UNCHANGED regVars
    /\ UNCHANGED execVars

ArgsInit ==
    /\ RegistryFresh /\ ExecIdle
    /\ probe \in { [done |-> FALSE, base |-> b, options |-> o] :
                     b \in { <<S_put, S_file>>, <<>> },
                     o \in { es \in EntryLists(MaxOpts) :
                               \A i, j \in 1..Len(es) :
                                  es[i].key = es[j].key => i = j }
                           \cup { ExampleOptions } }

SpecArgs == ArgsInit /\ [][BuildArgsCall]_vars

(***************************************************************************)
(* types.ts: formatToolResult and getActionableHint                        *)
(***************************************************************************)
CHARACTER_LIMIT == 50000

JSObject(es) == [t |-> "object", entries |-> es]

\* the characters JSON.stringify writes for the characters of a string
RECURSIVE EscapeChars(_)
EscapeChars(s) ==
    IF Len(s) = 0 THEN <<>>
    ELSE (IF s[1] = "\"" THEN <<"\\", "\"">>
          ELSE IF s[1] = "\\" THEN <<"\\", "\\">>
          ELSE IF s[1] = "\n" THEN <<"\\", "n">>
          ELSE IF s[1] = "\t" THEN <<"\\", "t">>
          ELSE IF s[1] = "\r" THEN <<"\\", "r">>
          ELSE <<s[1]>>) \o EscapeChars(Tail(s))

\* JSON.stringify of a string
Quote(s) == <<"\"">> \o EscapeChars(s) \o <<"\"">>

\* JSON.stringify of a value that holds no other value
StringifyScalar(v) ==
    IF v.t = "null" THEN <<"n","u","l","l">>
    ELSE IF v.t = "boolean"
         THEN (IF v.b THEN <<"t","r","u","e">> ELSE <<"f","a","l","s","e">>)
    ELSE IF v.t = "number" THEN NumToStr(v.n)
    ELSE Quote(v.s)

\* the lines of an array or object body, each indented by two spaces and
\* separated by ",\n"
RECURSIVE IndentedLines(_)
IndentedLines(parts) ==
    IF Len(parts) = 0 THEN <<>>
    ELSE IF Len(parts) = 1 THEN <<" ", " ">> \o parts[1]
    ELSE <<" ", " ">> \o parts[1] \o <<",", "\n">> \o IndentedLines(Tail(parts))

\* JSON.stringify(value, null, 2): a string as a JavaScript value, or
\* undefined for the value undefined.  Array items are strings, the values of
\* an object's entries hold no other value.
JSONStringify(v) ==
    IF v.t = "undefined" THEN JSUndefined
    ELSE IF v.t = "array"
         THEN IF Len(v.items) = 0 THEN JSString(<<"[", "]">>)
              ELSE JSString(<<"[", "\n">> \o
                     IndentedLines([i \in 1..Len(v.items) |-> Quote(v.items[i])])
                     \o <<"\n", "]">>)
    ELSE IF v.t = "object"
         THEN IF Len(v.entries) = 0 THEN JSString(<<"{", "}">>)
              ELSE JSString(<<"{", "\n">> \o
                     IndentedLines([i \in 1..Len(v.entries) |->
                        Quote(v.entries[i].key) \o <<":", " ">> \o
                        StringifyScalar(v.entries[i].value)])
                     \o <<"\n", "}">>)
    ELSE JSString(StringifyScalar(v))

\* lines 306-309: the text of a successful result
RenderedText(data) ==
    IF data.t = "string" THEN data ELSE JSONStringify(data)

\* variant: only the empty text counts as no output
NoOutput_EmptyOnly(text) ==
    \/ text.t = "undefined"
    \/ Len(text.s) = 0

\* line 311: !text || text === "null" || text === "undefined" ||
\* text.trim() === ""
NoOutput(text) ==
    \/ text.t = "undefined"
    \/ Len(text.s) = 0
    \/ text.s = <<"n","u","l","l">>
    \/ text.s = <<"u","n","d","e","f","i","n","e","d">>
    \/ Trim(text.s) = <<>>

\* lines 315-320; the dash of the last line is written "-"
NoOutputWarning ==
    <<"W","a","r","n","i","n","g",":"," ","m","e","m","v","i","d",".","e","x",
      "e"," ","r","e","t","u","r","n","e","d"," ","n","o"," ","o","u","t","p",
      "u","t","."," ","T","h","i","s"," ","u","s","u","a","l","l","y"," ","m",
      "e","a","n","s",":","\n","1","."," ","T","h","e"," ","i","n","p","u",
      "t"," ","f","i","l","e","/","p","a","t","h"," ","w","a","s"," ","n","o",
      "t"," ","f","o","u","n","d"," ","(","c","h","e","c","k"," ","t","h","a",
      "t"," ","t","h","e"," ","p","a","t","h"," ","e","x","i","s","t","s"," ",
      "o","n"," ","W","i","n","d","o","w","s",")","\n","2","."," ","T","h",
      "e"," ",".","m","v","2"," ","f","i","l","e"," ","i","s"," ","e","m","p",
      "t","y"," ","o","r"," ","c","o","r","r","u","p","t","e","d"," ","(","t",
      "r","y"," ","m","e","m","v","i","d","_","v","e","r","i","f","y",")",
      "\n","3","."," ","T","h","e"," ","q","u","e","r","y"," ","r","e","t",
      "u","r","n","e","d"," ","n","o"," ","r","e","s","u","l","t","s","\n",
      "\n","T","i","p",":"," ","m","e","m","v","i","d",".","e","x","e"," ",
      "r","u","n","s"," ","o","n"," ","W","i","n","d","o","w","s"," ","-"," ",
      "a","l","l"," ","p","a","t","h","s"," ","m","u","s","t"," ","b","e"," ",
      "W","i","n","d","o","w","s","-","s","t","y","l","e"," ","(","e",".","g",
      ".",","," ","C",":","\\","T","o","o","l","s","\\","m","e","m","v","i",
      "d","-","d","a","t","a","\\","f","i","l","e",".","m","v","2",")",".">>

\* lines 329-331
TruncationNotice ==
    <<"\n","\n","[","T","R","U","N","C","A","T","E","D",":"," ","R","e","s",
      "p","o","n","s","e"," ","e","x","c","e","e","d","e","d"," ">> \o
    NumToStr(CHARACTER_LIMIT) \o
    <<" ","c","h","a","r","a","c","t","e","r","s","."," ","U","s","e"," ","m",
      "o","r","e"," ","s","p","e","c","i","f","i","c"," ","q","u","e","r","i",
      "e","s"," ","o","r"," ","f","i","l","t","e","r","s"," ","t","o"," ","r",
      "e","d","u","c","e"," ","r","e","s","u","l","t"," ","s","i","z","e",".",
      "]">>

\* lines 348-364
getActionableHint(errorMsg) ==
    LET lower == ToLowerCase(errorMsg)
        hintNotFound ==
            <<"\n","\n","H","i","n","t",":"," ","C","h","e","c","k"," ","t",
              "h","a","t"," ","t","h","e"," ","f","i","l","e"," ","p","a","t",
              "h"," ","e","x","i","s","t","s"," ","o","n"," ","W","i","n","d",
              "o","w","s","."," ","U","s","e"," ","m","e","m","v","i","d","_",
              "c","r","e","a","t","e"," ","t","o"," ","c","r","e","a","t","e",
              " ","a"," ","n","e","w"," ",".","m","v","2"," ","f","i","l","e",
              ".">>
        hintPermission ==
            <<"\n","\n","H","i","n","t",":"," ","C","h","e","c","k"," ","f",
              "i","l","e"," ","p","e","r","m","i","s","s","i","o","n","s",".",
              " ","T","h","e"," ","f","i","l","e"," ","m","a","y"," ","b","e",
              " ","l","o","c","k","e","d"," ","b","y"," ","a","n","o","t","h",
              "e","r"," ","p","r","o","c","e","s","s",".">>
        hintCorrupt ==
            <<"\n","\n","H","i","n","t",":"," ","T","r","y"," ","m","e","m",
              "v","i","d","_","d","o","c","t","o","r"," ","t","o"," ","d","i",
              "a","g","n","o","s","e"," ","a","n","d"," ","r","e","p","a","i",
              "r"," ","t","h","e"," ","f","i","l","e",".">>
        hintTimeout ==
            <<"\n","\n","H","i","n","t",":"," ","T","h","e"," ","o","p","e",
              "r","a","t","i","o","n"," ","t","i","m","e","d"," ","o","u","t",
              "."," ","T","r","y"," ","w","i","t","h"," ","a"," ","s","m","a",
              "l","l","e","r"," ","d","a","t","a","s","e","t"," ","o","r"," ",
              "f","e","w","e","r"," ","f","i","l","e","s",".">>
    IN  IF \/ Includes(lower, <<"n","o","t"," ","f","o","u","n","d">>)
           \/ Includes(lower, <<"n","o"," ","s","u","c","h"," ","f","i","l","e">>)
        THEN hintNotFound
        ELSE IF \/ Includes(lower, <<"p","e","r","m","i","s","s","i","o","n">>)
                \/ Includes(lower, <<"a","c","c","e","s","s"," ","d","e","n","i","e","d">>)
        THEN hintPermission
        ELSE IF \/ Includes(lower, <<"c","o","r","r","u","p","t">>)
                \/ Includes(lower, <<"i","n","t","e","g","r","i","t","y">>)
        THEN hintCorrupt
        ELSE IF Includes(lower, <<"t","i","m","e","o","u","t">>) THEN hintTimeout
        ELSE <<>>

\* lines 304-346; errorMsg is result.stderr || result.error || "Unknown error",
\* the first of the two optional strings that is present and not empty
formatToolResult(result) ==
    IF result.success
    THEN LET text == RenderedText(result.data)
         IN  IF NoOutput(text)
             THEN [text |-> NoOutputWarning, isError |-> TRUE]
             ELSE IF Len(text.s) > CHARACTER_LIMIT
             THEN [text    |-> SubSeq(text.s, 1, CHARACTER_LIMIT) \o TruncationNotice,
                   isError |-> FALSE]
             ELSE [text |-> text.s, isError |-> FALSE]
    ELSE LET errorMsg ==
                 IF "stderr" \in DOMAIN result /\ Len(result.stderr) > 0
                 THEN result.stderr
                 ELSE IF "error" \in DOMAIN result /\ Len(result.error) > 0
                 THEN result.error
                 ELSE <<"U","n","k","n","o","w","n"," ","e","r","r","o","r">>
         IN  [text    |-> <<"E","r","r","o","r",":"," ">> \o errorMsg
                             \o getActionableHint(errorMsg),
              isError |-> TRUE]

(***************************************************************************)
(* Application of formatToolResult to one execution result                 *)
(***************************************************************************)
\* a text of n characters whose characters past the limit differ from those
\* before it
LongText(n) == [i \in 1..n |-> IF i <= CHARACTER_LIMIT THEN "x" ELSE "y"]

\* values of CliResult.data
FormatData ==
    { JSUndefined, JSNull, JSBool(TRUE), JSBool(FALSE), JSNumber(0), JSNumber(42),
      JSArray(<<>>), JSArray(<< <<"a">> >>), JSArray(<< <<"a">>, <<"q", "\"">> >>),
      JSObject(<<>>),
      JSObject(<< [key |-> <<"i","d">>, value |-> JSNumber(1)] >>),
      JSObject(<< [key |-> <<"i","d">>, value |-> JSNull],
                  [key |-> <<"o","k">>, value |-> JSString(<<"y">>)] >>) }
    \cup { JSString(s) : s \in
             { <<>>, <<" ">>, <<"\n">>, <<" ", "\t", "\r", "\n">>,
               <<"n","u","l","l">>, <<"u","n","d","e","f","i","n","e","d">>,
               <<" ","n","u","l","l">>, <<"N","u","l","l">>,
               <<"o","k">>, <<"0">>, <<"[","]">>, <<" ","o","k","\n">>,
               LongText(CHARACTER_LIMIT - 1), LongText(CHARACTER_LIMIT),
               LongText(CHARACTER_LIMIT + 1), LongText(CHARACTER_LIMIT + 2) } }

\* values of CliResult.stderr and CliResult.error
ErrorTexts ==
    { <<>>,
      <<"b","o","o","m">>,
      <<"F","i","l","e"," ","n","o","t"," ","f","o","u","n","d",":"," ","a",
        ".","m","v","2">>,
      <<"o","p","e","n",":"," ","N","o"," ","s","u","c","h"," ","f","i","l",
        "e">>,
      <<"P","e","r","m","i","s","s","i","o","n"," ","d","e","n","i","e","d">>,
      <<"A","c","c","e","s","s"," ","D","e","n","i","e","d"," ","(","5",")">>,
      <<"c","o","r","r","u","p","t"," ","f","r","a","m","e">>,
      <<"i","n","t","e","g","r","i","t","y"," ","c","h","e","c","k">>,
      <<"C","o","m","m","a","n","d"," ","t","i","m","e","o","u","t">> }

FormatToolResultCall ==
    /\ ~probe.done
    /\ probe' = [done   |-> TRUE,
                 input  |-> probe.input,
                 result |-> formatToolResult(probe.input)]
    /\ UNCHANGED regVars
    /\ UNCHANGED execVars

\* the argument is a successful result or a failed one; stderr and error are
\* optional
FormatInit ==
    /\ RegistryFresh /\ ExecIdle
    /\ probe \in { [done |-> FALSE, input |-> r] : r \in
          { [success |-> TRUE, data |-> v, exitCode |-> 0] : v \in FormatData }
          \cup { [success |-> FALSE, exitCode |-> c] : c \in {1, -1} }
          \cup { [success |-> FALSE, exitCode |-> 1, stderr |-> e] :
                   e \in ErrorTexts }
          \cup { [success |-> FALSE, exitCode |-> -1, error |-> e] :
                   e \in ErrorTexts }
          \cup { [success |-> FALSE, exitCode |-> 1, stderr |-> e, error |-> f] :
                   e \in ErrorTexts, f \in ErrorTexts } }

SpecFormat == FormatInit /\ [][FormatToolResultCall]_vars

(***************************************************************************)
(* Properties                                                              *)
(***************************************************************************)
TimeoutTmpl == "Command timed out after ${timeout}ms: memvid ${fullArgs}"

Resolved(k) == results[k] # NoResult
IsTimeout(r) == "error" \in DOMAIN r /\ r.error.tmpl = TimeoutTmpl
RanAndClosed(r) == r # NoResult /\ ~IsTimeout(r) /\ ~IsSpawnError(r)

\* C1 -- Retry bound: a call never makes more than 1 + MAX_RETRIES attempts;
\* a call all of whose attempts ended in a spawn failure has returned only
\* after exactly 1 + MAX_RETRIES attempts, and what it returned is the last
\* attempt's spawn-failure result (success = false, isSpawnError = true).
C1_RetryBound ==
    /\ Len(results) <= 1 + MAX_RETRIES
    /\ (pc = "done" /\ \A k \in 1..Len(results) : IsSpawnError(results[k]))
         => /\ Len(results) = 1 + MAX_RETRIES
            /\ returned = results[Len(results)]
            /\ returned.success = FALSE
            /\ returned.isSpawnError = TRUE

C1_Witness ==
    /\ pc = "done"
    /\ Len(results) = 1 + MAX_RETRIES
    /\ IsSpawnError(returned)
    /\ returned.spawnErrorCode = "ENOENT"

\* C2 -- Only spawn failures are retried: every attempt that was followed by
\* another attempt resolved as a spawn failure; an attempt that resolved as
\* anything else (process closed with any exit code, or timed out) is the last
\* attempt and its result is what the call returned; a call whose first process
\* started makes exactly one attempt.
C2_OnlySpawnFailuresRetried ==
    /\ \A k \in 1..Len(results) :
         /\ k < Len(results) => IsSpawnError(results[k])
         /\ (Resolved(k) /\ ~IsSpawnError(results[k]))
              => /\ k = Len(results)
                 /\ pc = "done"
                 /\ returned = results[k]
    /\ pc = "sleep" => IsSpawnError(results[Len(results)])
    /\ (Len(children) > 0 /\ children[1].kind = "started") => Len(results) = 1

C2_Witness ==
    /\ pc = "done"
    /\ Len(results) = 1
    /\ children[1].closed
    /\ returned.exitCode = 1

\* C3 -- Timeout: an attempt resolves with the timeout failure only after the
\* configured timeout has elapsed; SIGTERM has then been sent to the child
\* exactly once and the message carries the configured timeout value; no
\* attempt sends SIGTERM more than once, and SIGTERM is sent only by the
\* timeout that resolved the attempt.
C3_Timeout ==
    \A k \in 1..Len(children) :
        /\ children[k].sigterms <= 1
        /\ IsTimeout(results[k])
             => /\ children[k].elapsed >= call.timeout
                /\ children[k].sigterms = 1
                /\ results[k].success = FALSE
                /\ results[k].error.timeout = call.timeout
                /\ ~children[k].timer
        /\ children[k].sigterms = 1 => IsTimeout(results[k])
        /\ (children[k].timer /\ children[k].elapsed >= call.timeout)
             => (ENABLED TimeoutFires(k) /\ ~Resolved(k))

C3_Witness ==
    \E k \in 1..Len(children) :
        /\ IsTimeout(results[k])
        /\ children[k].phase = "running"
        /\ returned = results[k]

\* C4 -- Result shape: every result returned by executeMemvid either has
\* success = true with a payload and no error message, or success = false with
\* a non-empty error message and no payload.
ErrorIsEmpty(e) == e.tmpl = "${raw}" /\ Len(e.raw) = 0

WellShaped(r) ==
    IF r.success
    THEN "data" \in DOMAIN r /\ "error" \notin DOMAIN r
    ELSE "error" \in DOMAIN r /\ ~ErrorIsEmpty(r.error) /\ "data" \notin DOMAIN r

C4_ResultShape ==
    /\ pc = "done" => (returned # NoResult /\ WellShaped(returned))
    /\ \A k \in 1..Len(results) : Resolved(k) => WellShaped(results[k])

C4_Witness ==
    /\ pc = "done"
    /\ returned.success = FALSE
    /\ returned.exitCode = 1
    /\ children[1].stdout = <<>>
    /\ children[1].stderr = <<>>

\* C5 -- No operation raises: the promise returned by executeMemvid is never
\* rejected.
C5_NeverRejects == pc # "rejected"

\* C6 (as stated) -- whatever the outcome, both stdio streams of the child had
\* ended when the attempt's result was finalized.
C6_DrainedWhateverOutcome ==
    \A k \in 1..Len(children) : Resolved(k) => children[k].drainedAtSettle

\* C6 (amended) -- when the result of an attempt is produced by the close
\* handler (the process ran and closed), both stdio streams had ended before
\* the result was finalized and the result is computed from every chunk the
\* child ever delivers.
C6_DrainedOnClose ==
    \A k \in 1..Len(children) :
        RanAndClosed(results[k])
          => /\ children[k].drainedAtSettle
             /\ Drained(children[k])
             /\ results[k] = CloseResult(children[k], call)

C6_Witness ==
    \E k \in 1..Len(children) :
        /\ RanAndClosed(results[k])
        /\ Len(children[k].stdout) > 0
        /\ Len(children[k].stderr) > 0

\* C7 -- Output-shape errors never fail the call: a process that closed with
\* exit code zero under structured-output parsing yields success = true; stdout
\* "not json" gives the payload string "not json", empty stdout gives the empty
\* string, stdout " 7\n" gives the parsed number 7 and stdout "null" gives the
\* parsed null.
T_notjson == <<"n","o","t"," ","j","s","o","n">>

C7_ParseFailureDegrades ==
    \A k \in 1..Len(children) :
        ( /\ RanAndClosed(results[k])
          /\ ~call.skipJson
          /\ ~children[k].exit.signal /\ children[k].exit.code = 0 )
          => /\ results[k].success = TRUE
             /\ "error" \notin DOMAIN results[k]
             /\ children[k].stdout = <<T_notjson>>
                  => results[k].data = JSString(T_notjson)
             /\ children[k].stdout = <<>>
                  => results[k].data = JSString(<<>>)
             /\ children[k].stdout = << <<" ","7","\n">> >>
                  => results[k].data = JSNumber(7)
             /\ children[k].stdout = << <<"n","u","l","l">> >>
                  => results[k].data = JSNull

C7_Witness ==
    /\ pc = "done"
    /\ ~call.skipJson
    /\ returned.success = TRUE
    /\ returned.data = JSString(T_notjson)

\* C8 -- Every path-shaped field of a tool invocation that reached spawn()
\* was accepted by isPathSafe.
PathFieldsOf(cl) ==
    { cl.fields[f].s : f \in { g \in DOMAIN cl.fields : cl.fields[g].t = "string" } }

C8_SpawnedPathsValidated ==
    pc \in {"await", "rejected"} => \A p \in PathFieldsOf(call) : isPathSafe(p)

\* C9 -- A path that contains ".." anywhere is rejected by isPathSafe in every
\* Root Registry state.
HasDotDot(p) == \E i \in 1..(Len(p) - 1) : p[i] = "." /\ p[i + 1] = "."

C9_TraversalRejected ==
    (probe.done /\ HasDotDot(probe.path)) => probe.safe = FALSE

C9_Witness ==
    /\ probe.done
    /\ HasDotDot(probe.path)
    /\ initialized /\ supported /\ Len(roots) > 0
    /\ probe.within
    /\ ~HitsDenylist(probe.path)

\* C10 -- A path whose lower-cased, separator-unified form contains a
\* denylisted fragment is rejected by isPathSafe, also inside a configured root.
Denylisted(p) ==
    \E frag \in BLOCKED_LINUX_PATHS \cup BLOCKED_WINDOWS_PATHS :
        Includes(ToLowerCase(ReplaceBackslash(p)), frag)

C10_DenylistRejected ==
    (probe.done /\ Denylisted(probe.path)) => probe.safe = FALSE

C10_Witness ==
    /\ probe.done
    /\ Denylisted(probe.path)
    /\ ~HasDotDot(probe.path)
    /\ initialized /\ supported /\ Len(roots) > 0
    /\ probe.within
    /\ \E i \in 1..Len(probe.path) : IsUpper(probe.path[i]) /\ probe.path[i] # "C"

(***************************************************************************)
(* Root Registry properties, checked under SpecRoots                       *)
(***************************************************************************)
\* the registry imposes no restriction in this state
FailOpen == ~initialized \/ ~supported \/ Len(roots) = 0

\* C11: after any sequence of initialize and roots-changed steps, whenever
\* the registry is not initialized, or the client does not support roots, or
\* it supports them with an empty root list, isPathWithinRoots returns true
\* for every path.
C11_FailOpen ==
    FailOpen => \A p \in CandidatePaths : isPathWithinRoots(p)

\* a roots-changed query has replaced a non-empty list by the empty one
C11_Witness ==
    /\ initialized /\ supported /\ Len(roots) = 0
    /\ lastOp.op = "changed-ok"
    /\ Len(lastOp.roots) > 0
    /\ \A p \in CandidatePaths : isPathWithinRoots(p)


(***************************************************************************)
(* Containment, checked under SpecPaths                                    *)
(***************************************************************************)
Restricting == initialized /\ supported /\ Len(roots) > 0

Unified(p) == [i \in 1..Len(p) |-> IF p[i] = "\\" THEN "/" ELSE p[i]]

Stripped(p) ==
    IF Len(p) > 1 /\ p[Len(p)] = "/" THEN SubSeq(p, 1, Len(p) - 1) ELSE p

DriveQualified(p) == Len(p) >= 2 /\ IsLetter(p[1]) /\ p[2] = ":"

Folded(p) == [i \in 1..Len(p) |-> LowerChar(p[i])]

\* separator unification, trailing-slash stripping, and lower-casing of
\* drive-qualified paths only
NormalDriveOnly(p) ==
    LET n == Stripped(Unified(p))
    IN  IF DriveQualified(n) THEN Folded(n) ELSE n

\* the same, lower-casing also every path when the host is Windows
NormalOnHost(p, plat) ==
    LET n == Stripped(Unified(p))
    IN  IF plat = "win32" \/ DriveQualified(n) THEN Folded(n) ELSE n

\* np equals nr, or begins with nr followed by a separator
EqualOrBelow(np, nr) ==
    /\ Len(np) >= Len(nr)
    /\ SubSeq(np, 1, Len(nr)) = nr
    /\ Len(np) = Len(nr) \/ np[Len(nr) + 1] = "/"

\* np continues the last component of nr: /a/bc against /a/b
SiblingOf(np, nr) ==
    /\ Len(np) > Len(nr)
    /\ SubSeq(np, 1, Len(nr)) = nr
    /\ np[Len(nr) + 1] # "/"

\* C12 as stated: with a restricting registry, isPathWithinRoots(P) is true
\* iff P, normalized by separator unification, trailing-slash stripping and
\* lower-casing when drive-qualified, equals some root or begins with some
\* root followed by a separator.
C12_ContainmentDriveOnly ==
    (probe.done /\ Restricting) =>
        (probe.within <=>
            \E i \in 1..Len(roots) :
                EqualOrBelow(NormalDriveOnly(probe.path),
                             NormalDriveOnly(uriToPath(roots[i]))))

\* C12 amended: the same with the normalization the host applies, which
\* lower-cases every path on Windows and drive-qualified paths elsewhere; a
\* path that only continues a root's last component is rejected.
C12_Containment ==
    (probe.done /\ Restricting) =>
        (probe.within <=>
            \E i \in 1..Len(roots) :
                EqualOrBelow(NormalOnHost(probe.path, platform),
                             NormalOnHost(uriToPath(roots[i]), platform)))

\* a sibling of a root that shares its string prefix has been rejected
C12_Witness ==
    /\ probe.done /\ Restricting
    /\ ~probe.within
    /\ \E i \in 1..Len(roots) :
          SiblingOf(NormalOnHost(probe.path, platform),
                    NormalOnHost(uriToPath(roots[i]), platform))


\* the registry holds exactly the project root of the worked example
ProjectRootOnly == initialized /\ supported /\ roots = <<URI_project>>

\* C13 as stated: with the single root file:///home/user/project, validation
\* of a path-typed tool input accepts /home/user/project/notes.mv2, rejects
\* /home/user/other/notes.mv2, and rejects
\* /home/user/project/../../etc/passwd.
C13_ScenarioInputAccepted ==
    (probe.done /\ ProjectRootOnly) =>
        /\ probe.path = P_notes  => probe.accepted
        /\ probe.path = P_other  => ~probe.accepted
        /\ probe.path = P_passwd => ~probe.accepted

\* C13 amended: with that root, isPathSafe accepts the file in the project,
\* rejects the file beside it at the registry check, and rejects the
\* climbing path at the traversal check, before the registry is consulted;
\* the path-typed input schemas reject all three, each being a Linux path.
C13_Scenario ==
    (probe.done /\ ProjectRootOnly) =>
        /\ probe.path = P_notes  => probe.exit = "safe" /\ probe.safe
        /\ probe.path = P_other  => probe.exit = "roots" /\ ~probe.safe
        /\ probe.path = P_passwd => probe.exit = "traversal" /\ ~probe.safe
        /\ probe.path \in ScenarioPaths => probe.linux /\ ~probe.accepted

\* the file in the project has been judged safe and refused by the schema
C13_Witness ==
    /\ probe.done /\ ProjectRootOnly
    /\ probe.path = P_notes
    /\ probe.safe /\ ~probe.accepted


(***************************************************************************)
(* Handler transitions, checked under SpecRoots.  lastOp names the handler *)
(* step completed last and holds the registry state that step found; no    *)
(* other step writes the registry, so the current state is the one it left.*)
(***************************************************************************)
\* C14: when initialize completes after a successful query the registry
\* holds exactly the returned roots with supported and initialized true;
\* when it completes after a failed query, supported is false, initialized
\* is true, and containment checks pass for every path from then on.
C14_InitializeTransitions ==
    /\ lastOp.op = "init-ok" =>
          roots = lastOp.ans /\ supported /\ initialized
    /\ lastOp.op = "init-failed" =>
          ~supported /\ initialized
    /\ (lastOp.op = "init-failed"
          \/ (lastOp.op = "changed-skipped" /\ lastOp.initialized)) =>
          \A p \in CandidatePaths : isPathWithinRoots(p)

\* an initialize has failed on a registry that was restricting before
C14_Witness ==
    /\ lastOp.op = "init-failed"
    /\ lastOp.supported /\ Len(lastOp.roots) > 0
    /\ ~supported /\ initialized
    /\ roots = lastOp.roots


\* a roots/list_changed notification is taken up in this step
NotificationHandled == pendingNotes' = pendingNotes - 1

\* C15: a roots-changed notification handled while supported is false
\* issues no roots query and leaves roots, supported and initialized as
\* they were.
C15_UnsupportedChangeIsNoOp ==
    [][(NotificationHandled /\ ~supported) =>
          UNCHANGED <<queries, nextQ, roots, supported, initialized>>]_vars

\* a notification has been dropped by an initialized, unsupported registry
\* while the client holds other roots than the registry
C15_Witness ==
    /\ lastOp.op = "changed-skipped"
    /\ lastOp.initialized /\ ~lastOp.supported
    /\ roots = lastOp.roots /\ ~supported /\ initialized
    /\ clientRoots # roots
    /\ nextQ = lastOp.nextQ

\* the tool paths a registry state admits
Admitted(rs, init, supp) ==
    { p \in ToolPaths : WithinRootsOf(p, rs, init, supp, platform) }

\* C16: when a roots-changed query issued under supported = true fails, the
\* handler leaves the registry as it found it: the root list stays in
\* force, supported and initialized keep their values, and no path is
\* admitted that was not admitted before.
C16_FailedChangeKeepsRoots ==
    lastOp.op = "changed-failed" =>
        /\ roots = lastOp.roots
        /\ supported = lastOp.supported
        /\ initialized = lastOp.initialized
        /\ lastOp.supported => (supported /\ initialized)
        /\ Admitted(roots, initialized, supported)
             \subseteq Admitted(lastOp.roots, lastOp.initialized, lastOp.supported)

\* a roots-changed query has failed on a restricting registry, which still
\* rejects a path
C16_Witness ==
    /\ lastOp.op = "changed-failed"
    /\ Restricting
    /\ roots = lastOp.roots
    /\ clientRoots # roots
    /\ \E p \in ToolPaths : ~isPathWithinRoots(p)


\* an initialize completes in this step with the outcome op and answer ans
InitializeCompletes(op, ans) ==
    \E q \in queries :
        /\ q.who = "init" /\ q.st # "pending"
        /\ queries' = queries \ {q}
        /\ op = (IF q.st = "ok" THEN "init-ok" ELSE "init-failed")
        /\ ans = q.ans

\* C17: an initialize that completes right after another initialize with
\* the same query outcome (the same root list, or a failure again) leaves
\* roots, supported and initialized as the first one left them.
C17_InitializeIdempotent ==
    [][(lastOp.op \in {"init-ok", "init-failed"}
          /\ InitializeCompletes(lastOp.op, lastOp.ans)) =>
          UNCHANGED <<roots, supported, initialized>>]_vars

\* exactly two queries were issued and answered, both by initialize and
\* both with the same non-empty root list
C17_Witness ==
    /\ nextQ = 2 /\ queries = {}
    /\ lastOp.op = "init-ok"
    /\ lastOp.supported /\ lastOp.initialized
    /\ Len(lastOp.ans) > 0
    /\ lastOp.roots = lastOp.ans
    /\ roots = lastOp.ans /\ supported /\ initialized


\* isPathWithinRoots has no await: an evaluation reads state.roots of one
\* state, between two handler steps
\* C18: however validations interleave with the handlers, the root list an
\* evaluation of isPathWithinRoots reads is one complete list: the empty
\* initial list, or a list the client returned whole, and after a
\* replacement either the full list before it or the full list after it.
C18_WholeRootList ==
    /\ roots \in RootLists
    /\ lastOp.op = "none" => roots = <<>>
    /\ lastOp.op \in {"init-ok", "changed-ok"} => roots = lastOp.ans
    /\ lastOp.op \in {"init-failed", "changed-failed", "changed-skipped"} =>
          roots = lastOp.roots
    /\ \A p \in ToolPaths :
          isPathWithinRoots(p) <=>
            (FailOpen \/ \E i \in 1..Len(roots) :
                            RootAdmits(roots[i], normalizePath(p, platform), platform))

\* a two-root list has replaced a one-root list while a further query is
\* in flight, and a path the old list admitted is rejected
C18_Witness ==
    /\ lastOp.op = "changed-ok"
    /\ Len(lastOp.roots) = 1 /\ Len(roots) = 2
    /\ supported /\ initialized
    /\ queries # {}
    /\ \E p \in ToolPaths :
          /\ WithinRootsOf(p, lastOp.roots, TRUE, TRUE, platform)
          /\ ~isPathWithinRoots(p)


(***************************************************************************)
(* Rejection messages, checked under SpecPaths                             *)
(***************************************************************************)
\* C19: a rejected path is told which check failed (traversal, restricted
\* system path, or outside the allowed roots): two paths rejected by
\* different checks never receive the same rejection.
C19_RejectionNamesCause ==
    (probe.done /\ probe.exit # "safe") =>
        \A p \in ToolPaths :
            isPathSafeExit(p) \notin {"safe", probe.exit} =>
                FilePathIssues(p) # probe.issues


(***************************************************************************)
(* Spawn failures, checked under Spec                                      *)
(***************************************************************************)
\* C20: an attempt whose process could not be started resolves with
\* success = false, isSpawnError = true, exitCode = -1 and the operating
\* system's error code in spawnErrorCode, its message carrying the
\* binary-not-found hint for ENOENT, the permission-denied hint for EACCES
\* and the generic hint otherwise; the result of a process that ran, closed
\* or timed out, never carries isSpawnError.
C20_SpawnFailureReport ==
    \A k \in 1..Len(children) :
        Resolved(k) =>
            IF children[k].kind = "failed"
            THEN /\ DOMAIN results[k] =
                      {"success", "error", "exitCode", "isSpawnError", "spawnErrorCode"}
                 /\ results[k].success = FALSE
                 /\ results[k].isSpawnError = TRUE
                 /\ results[k].exitCode = -1
                 /\ results[k].spawnErrorCode = children[k].errCode
                 /\ results[k].spawnErrorCode \in SpawnErrorCodes
                 /\ results[k].error.hint =
                      (CASE children[k].errCode = "ENOENT" -> "binary not found"
                         [] children[k].errCode = "EACCES" -> "permission denied"
                         [] OTHER -> "Is MEMVID_PATH set correctly?")
            ELSE "isSpawnError" \notin DOMAIN results[k]

\* one call has seen a permission failure, a missing binary, and then a
\* process that timed out
C20_Witness ==
    /\ Len(results) = 3
    /\ results[1].exitCode = -1 /\ IsSpawnError(results[1])
    /\ results[1].spawnErrorCode = "EACCES"
    /\ results[1].error.hint = "permission denied"
    /\ IsSpawnError(results[2])
    /\ results[2].spawnErrorCode = "ENOENT"
    /\ results[2].error.hint = "binary not found"
    /\ IsTimeout(results[3]) /\ ~IsSpawnError(results[3])


(***************************************************************************)
(* Process Executor properties of the third group, checked under Spec      *)
(***************************************************************************)
\* attempt k was resolved by the close of a process that exited on its own
\* with a non-zero code
ClosedNonZero(k) ==
    /\ RanAndClosed(results[k])
    /\ children[k].closed
    /\ ~children[k].exit.signal
    /\ children[k].exit.code # 0

\* the text captured from a stream: its chunks joined and trimmed
Captured(chunks) == Trim(Join(chunks, <<>>))

\* C21: on a non-zero exit code the result is a failure that carries the
\* exit code; its error text is the captured standard error when that is
\* not empty, else the captured standard output when that is not empty,
\* else a generic message that names the exit code.
C21_NonZeroExitText ==
    \A k \in 1..Len(children) :
        ClosedNonZero(k) =>
            LET err == Captured(children[k].stderr)
                out == Captured(children[k].stdout)
                r   == results[k]
            IN  /\ r.success = FALSE
                /\ r.exitCode = children[k].exit.code
                /\ Len(err) > 0 => r.error = [tmpl |-> "${raw}", raw |-> err]
                /\ (Len(err) = 0 /\ Len(out) > 0) =>
                      r.error = [tmpl |-> "${raw}", raw |-> out]
                /\ (Len(err) = 0 /\ Len(out) = 0) =>
                      /\ r.error.tmpl = "memvid ${command} failed with exit code ${code}."
                      /\ r.error.code.code = children[k].exit.code
                      /\ r.error.command = call.command

\* a process wrote to both streams and exited with code 1: the error text
\* is what it wrote to standard error
C21_Witness ==
    /\ Len(children) = 1
    /\ ClosedNonZero(1)
    /\ Len(Captured(children[1].stdout)) > 0
    /\ Len(Captured(children[1].stderr)) > 0
    /\ results[1].error.raw = Captured(children[1].stderr)
    /\ results[1].error.raw # Captured(children[1].stdout)


(***************************************************************************)
(* Argument Builder, checked under SpecArgs                                *)
(***************************************************************************)
FlagOf(key) == <<"-","-">> \o [i \in 1..Len(key) |-> IF key[i] = "_" THEN "-" ELSE key[i]]

\* the string form of a scalar that is neither null, undefined nor boolean
StringForm(v) == IF v.t = "number" THEN NumToStr(v.n) ELSE v.s

\* what one option contributes, by the kind of its value
Contribution(e) ==
    CASE e.value.t \in {"null", "undefined"} -> <<>>
      [] e.value.t = "boolean" /\ ~e.value.b -> <<>>
      [] e.value.t = "boolean" /\ e.value.b  -> << FlagOf(e.key) >>
      [] e.value.t = "array" -> << FlagOf(e.key), Join(e.value.items, <<",">>) >>
      [] OTHER -> << FlagOf(e.key), StringForm(e.value) >>

\* where the contribution of entry i starts in the result
RECURSIVE OffsetOf(_, _, _)
OffsetOf(base, es, i) ==
    IF i = 1 THEN Len(base)
    ELSE OffsetOf(base, es, i - 1) + Len(Contribution(es[i - 1]))

\* C22: buildArgs(base, options) is base followed, in the iteration order of
\* the options, by each key's contribution: nothing for null, undefined and
\* false, the flag for true, the flag and one comma-joined value for a
\* sequence, the flag and the string form for another scalar; base is a
\* prefix of the result and is left as it was; the worked example gives
\* put file.ext --recursive --limit 5 --tags a,b.
C22_BuildArgs ==
    probe.done =>
        LET es == probe.options
            n  == Len(es)
        IN  /\ probe.base = probe.given
            /\ SubSeq(probe.result, 1, Len(probe.given)) = probe.given
            /\ Len(probe.result) = OffsetOf(probe.given, es, n + 1)
            /\ \A i \in 1..n :
                  SubSeq(probe.result,
                         OffsetOf(probe.given, es, i) + 1,
                         OffsetOf(probe.given, es, i + 1)) = Contribution(es[i])
            /\ (probe.given = <<S_put, S_file>> /\ es = ExampleOptions) =>
                  probe.result = << S_put, S_file,
                                    <<"-","-","r","e","c","u","r","s","i","v","e">>,
                                    <<"-","-","l","i","m","i","t">>, <<"5">>,
                                    <<"-","-","t","a","g","s">>, <<"a",",","b">> >>

\* the worked example has been built
C22_Witness ==
    /\ probe.done
    /\ probe.given = <<S_put, S_file>>
    /\ probe.options = ExampleOptions
    /\ Len(probe.result) = 7


\* attempts of the call whose promise is still pending
Unresolved == { k \in 1..Len(results) : results[k] = NoResult }

\* child processes of the call that were started and have not ended
Running == { k \in 1..Len(children) :
               children[k].kind = "started" /\ children[k].phase = "running" }

\* C23: the attempts of one call are sequential: when attempt k+1 exists,
\* attempt k has resolved as a spawn failure and its backoff delay was
\* waited for; at most one attempt is unresolved and at most one child
\* process of the call is running.
C23_SequentialAttempts ==
    /\ \A k \in 1..(Len(children) - 1) :
          /\ IsSpawnError(results[k])
          /\ children[k].kind = "failed"
          /\ Len(delays) >= k
    /\ Cardinality(Unresolved) <= 1
    /\ Cardinality(Running) <= 1
    /\ Unresolved \subseteq {Len(children)}
    /\ pc = "sleep" => Unresolved = {}

\* the third attempt runs alone after two failed spawns
C23_Witness ==
    /\ Len(children) = 3
    /\ Running = {3} /\ Unresolved = {3}
    /\ children[1].closed /\ children[2].closed
    /\ Len(delays) = 2


\* C25: the result of an attempt, once given, is never changed by a later
\* event of that attempt (the close that follows a timeout kill, the close
\* that follows an error), and neither is the result the call returned.
C25_OneTerminalOutcome ==
    [][/\ \A k \in 1..Len(results) :
            results[k] # NoResult =>
                (k <= Len(results') /\ results'[k] = results[k])
       /\ returned # NoResult => returned' = returned]_vars

\* a child killed by the timeout has closed afterwards: the attempt still
\* reports the timeout
C25_Witness ==
    \E k \in 1..Len(children) :
        /\ IsTimeout(results[k])
        /\ children[k].sigterms = 1
        /\ children[k].closed
        /\ children[k].exit.signal
        /\ returned = results[k]


C29_SignalOnlyByTimer ==
    \A k \in 1..Len(children) :
        /\ children[k].sigterms <= 1
        /\ children[k].sigterms = 1 =>
              (IsTimeout(results[k]) /\ children[k].kind = "started")
        /\ (RanAndClosed(results[k]) \/ IsSpawnError(results[k])) =>
              (children[k].sigterms = 0 /\ ~children[k].timer)
        /\ children[k].closed => ~children[k].timer
        /\ Resolved(k) => ~children[k].timer

\* a process ran past the first time point, closed before its timeout, and
\* was never signalled
C29_Witness ==
    \E k \in 1..Len(children) :
        /\ RanAndClosed(results[k])
        /\ children[k].closed
        /\ children[k].elapsed > 0
        /\ children[k].elapsed < call.timeout
        /\ children[k].sigterms = 0
        /\ ~children[k].timer


\* C30: in every result, success holds exactly when exitCode is 0; timeout
\* and spawn-failure results carry -1, a close with a non-zero code carries
\* that code, and a close without an exit code, the process having been
\* ended by a signal, is a failure with -1.
C30_SuccessIffExitZero ==
    /\ pc = "done" => (returned.success <=> returned.exitCode = 0)
    /\ \A k \in 1..Len(results) :
          Resolved(k) =>
              /\ results[k].success <=> results[k].exitCode = 0
              /\ (IsTimeout(results[k]) \/ IsSpawnError(results[k])) =>
                    results[k].exitCode = -1
              /\ RanAndClosed(results[k]) =>
                    results[k].exitCode =
                        (IF children[k].exit.signal THEN -1 ELSE children[k].exit.code)

\* a process ended by a signal the adapter did not send: the call has
\* returned a failure with exit code -1
C30_Witness ==
    /\ pc = "done"
    /\ Len(children) = 1
    /\ RanAndClosed(returned)
    /\ children[1].exit.signal
    /\ children[1].sigterms = 0
    /\ returned.success = FALSE
    /\ returned.exitCode = -1


\* the arguments of the call that stand at position 3 or later (counting
\* from 0) and are not also the sub-command or one of the two previewed
SecretArgs ==
    IF call = NoCall THEN {}
    ELSE { call.given[j] : j \in 4..Len(call.given) }
           \ { call.given[j] :
                 j \in 1..(IF Len(call.given) < 3 THEN Len(call.given) ELSE 3) }

\* the strings a log entry is rendered from
StringsIn(e) == { e.text[i] : i \in 1..Len(e.text) }

\* C24: the log entries of an invocation are rendered from the sub-command
\* name, the arguments at positions 1 and 2, and what the process did: the
\* entry log previews exactly those two arguments, and no entry contains an
\* argument that stands at position 3 or later, such as a password value.
C24_LogsOmitLaterArguments ==
    /\ call # NoCall =>
          /\ Len(logs) >= 2
          /\ logs[2].msg = "Executing: memvid ${command}"
          /\ logs[2].text =
                <<call.command>> \o
                SubSeq(call.given, 2, IF Len(call.given) < 3 THEN Len(call.given) ELSE 3)
    /\ \A i \in 1..Len(logs) : StringsIn(logs[i]) \cap SecretArgs = {}

\* a lock call with a password has failed to spawn, retried, and run into
\* its timeout: six or more entries, none with the password
C24_Witness ==
    /\ call # NoCall
    /\ call.command = S_lock
    /\ <<"p","w">> \in SecretArgs
    /\ pc = "done"
    /\ IsTimeout(returned)
    /\ Len(children) = 2
    /\ Len(logs) >= 6
    /\ \A i \in 1..Len(logs) : <<"p","w">> \notin StringsIn(logs[i])


\* the text formatToolResult renders for the payload of a successful result
PayloadText(r) == RenderedText(r.data)

\* a rendered text is non-empty: a string that is not empty, not made of
\* whitespace only, and neither "null" nor "undefined"
NonEmptyText(t) ==
    /\ t.t = "string"
    /\ Len(t.s) > 0
    /\ \E i \in 1..Len(t.s) : t.s[i] \notin Whitespace
    /\ t.s # <<"n","u","l","l">>
    /\ t.s # <<"u","n","d","e","f","i","n","e","d">>

\* C27 -- formatToolResult returns isError = false if and only if the result
\* has success = true and its rendered payload text is non-empty (not empty,
\* not whitespace only, not "null", not "undefined"); every failure and every
\* success without output is returned with isError = true.  A successful text
\* longer than CHARACTER_LIMIT is returned as its first CHARACTER_LIMIT
\* characters followed by the truncation notice; a successful text within the
\* limit is returned as it is.
C27_FormatToolResult ==
    probe.done =>
        LET r   == probe.input
            out == probe.result
        IN  /\ (out.isError = FALSE) <=> (r.success /\ NonEmptyText(PayloadText(r)))
            /\ ~r.success => out.isError = TRUE
            /\ (r.success /\ ~NonEmptyText(PayloadText(r))) => out.isError = TRUE
            /\ (r.success /\ NonEmptyText(PayloadText(r))) =>
                  LET t == PayloadText(r).s
                  IN  IF Len(t) > CHARACTER_LIMIT
                      THEN /\ Len(out.text) = CHARACTER_LIMIT + Len(TruncationNotice)
                           /\ SubSeq(out.text, 1, CHARACTER_LIMIT)
                                 = SubSeq(t, 1, CHARACTER_LIMIT)
                           /\ SubSeq(out.text, CHARACTER_LIMIT + 1, Len(out.text))
                                 = TruncationNotice
                      ELSE out.text = t

\* a successful text of CHARACTER_LIMIT + 1 characters has been formatted:
\* the character past the limit is gone and the notice follows
C27_Witness ==
    /\ probe.done
    /\ probe.input.success
    /\ probe.input.data = JSString(LongText(CHARACTER_LIMIT + 1))
    /\ probe.result.isError = FALSE
    /\ Len(probe.result.text) = CHARACTER_LIMIT + Len(TruncationNotice)
    /\ probe.result.text[CHARACTER_LIMIT] = "x"
    /\ probe.result.text[CHARACTER_LIMIT + 1] = "\n"

\* initialization and every roots-changed handler have completed: no
\* notification waits for its handler and no handler awaits a query
HandlersCompleted ==
    /\ initStarted
    /\ initialized
    /\ pendingNotes = 0
    /\ queries = {}

\* C28 -- Roots convergence: with a client that supports roots and answers
\* every roots/list request with its root set as of the moment of the answer,
\* once initialization and every roots-changed handler triggered by the
\* client's notifications have completed, the registry's root list equals the
\* client's current root set, under every interleaving.
C28_RootsConverge ==
    HandlersCompleted => roots = clientRoots

====
